---- MODULE Spec2Model ----
(***************************************************************************)
(* Model of the SQL query builder (QueryBuilder), the query executor with  *)
(* its connection guard (config/db.js) and their callers.                  *)
(*                                                                         *)
(* SQL text is a sequence of tokens: a template string or a join(' ')      *)
(* concatenates token sequences, join(', ') and join(' AND ') put the      *)
(* separator token between the parts.  A nullable JavaScript field is a    *)
(* sequence of length 0 (null / undefined) or 1 (the value).               *)
(***************************************************************************)
EXTENDS Integers, Sequences, FiniteSets, TLC

\* ------------------------------------------------------------------ bounds
\* longest list of filter fragments a modelled builder accumulates
MaxWhere == 2
\* longest list of join clauses a modelled builder accumulates
MaxJoin == 1
\* connections the process creates in one modelled run
MaxConns == 3
\* concurrent requests
MaxReq == 2
\* rows one table of the modelled database holds
MaxRows == 2
\* redirects a client follows for one request
MaxHops == 2
\* stories a collection is created with
MaxLinks == 2

VARIABLES
    qb,        \* the QueryBuilder instance of request 1
    ghost,     \* history of the filter calls made on qb (not program state)
    call,      \* the terminal builder call in progress: its kind, statement, outcome
    db,        \* config/db.js `db`: index in conns of the current connection
    conns,     \* every connection created so far: driver state, which code path
               \* created it, and the kind of 'error' event it has raised
    promise,   \* per request: the promise returned by query() and its statement
    crashed,   \* the process died of an uncaught exception
    tables,    \* the database server: per table, the rows stored so far
    loader,    \* loadRoutes: its position, the directories it reads, and the
               \* routers mounted on the application so far
    svc,       \* the controller or service operation in progress: its
               \* arguments, its position, and what it has reported
    http       \* the web server: whether it listens, and the request it is
               \* dispatching with its response

qbVars == <<qb, ghost, call>>
dbVars == <<db, conns, promise, crashed>>
appVars == <<svc, http>>
vars == <<qb, ghost, call, db, conns, promise, crashed, tables, loader, svc, http>>

Requests == 1..MaxReq

\* ------------------------------------------------------------ text helpers
\* Array.prototype.join(sep) on a list of token sequences, sep a visible separator
RECURSIVE JoinWith(_, _)
JoinWith(parts, sep) ==
    IF parts = <<>> THEN <<>>
    ELSE IF Len(parts) = 1 THEN parts[1]
    ELSE parts[1] \o <<sep>> \o JoinWith(Tail(parts), sep)

\* Array.prototype.join(' '): tokens are what blanks separate
RECURSIVE JoinBlank(_)
JoinBlank(parts) == IF parts = <<>> THEN <<>> ELSE Head(parts) \o JoinBlank(Tail(parts))

\* Array.prototype.filter(Boolean): drops the falsy parts (0, false, null, '')
RECURSIVE FilterBoolean(_)
FilterBoolean(parts) ==
    IF parts = <<>> THEN <<>>
    ELSE IF Head(parts) = <<>> THEN FilterBoolean(Tail(parts))
    ELSE <<Head(parts)>> \o FilterBoolean(Tail(parts))

\* each string of a list as a one-token text
RECURSIVE Words(_)
Words(strs) == IF strs = <<>> THEN <<>> ELSE <<<<Head(strs)>>>> \o Words(Tail(strs))

\* `cond && text` in a list later passed through filter(Boolean)
AndText(cond, text) == IF cond THEN text ELSE <<>>

\* JavaScript truthiness of a nullable string field
Truthy(f) == f # <<>> /\ f[1] # ""

\* ------------------------------------------------------------ QueryBuilder
\* constructor(table)
QueryBuilder(table) ==
    [ table |-> table,
      selectFields |-> <<"*">>,
      whereConditions |-> <<>>,
      whereParams |-> <<>>,
      orderByField |-> <<>>,
      orderDirection |-> "ASC",
      limitCount |-> <<>>,
      joinClauses |-> <<>>,
      groupByFields |-> <<>>,
      insertData |-> <<>> ]

\* select(fields): fields is [isArray, items]; a string is one item
select(b, fields) ==
    [b EXCEPT !.selectFields =
        IF fields.isArray THEN JoinWith(Words(fields.items), ",") ELSE <<fields.items[1]>>]

\* insert(data): data is the ordered list of <<column, value>> pairs of the object
insert(b, data) == [b EXCEPT !.insertData = <<data>>]

\* whereField writing the value into the fragment
C16_whereFieldInline(b, field, value) ==
    [b EXCEPT !.whereConditions = Append(@, <<field, "=", value.v>>)]

\* whereField with the parameter put in front (unshift for push)
C2_whereFieldUnshift(b, field, value) ==
    [b EXCEPT !.whereConditions = Append(@, <<field, "=", "?">>),
              !.whereParams = <<value>> \o @]

\* whereField(field, value)
whereField(b, field, value) ==
    [b EXCEPT !.whereConditions = Append(@, <<field, "=", "?">>),
              !.whereParams = Append(@, value)]

\* Number(text) / the quoted literal without its quotes
ParsedValue(rhs) ==
    IF rhs.kind = "num" THEN [t |-> "num", v |-> rhs.text] ELSE [t |-> "str", v |-> rhs.text]

\* where() without the early return for an unsupported right-hand side: the
\* fragment is pushed, no parameter is
C3_whereNoSkip(b, src) ==
    IF src.matches
    THEN IF src.rhs.kind \in {"quoted", "num"}
         THEN [b EXCEPT !.whereConditions = Append(@, <<src.field, "=", "?">>),
                        !.whereParams = Append(@, ParsedValue(src.rhs))]
         ELSE [b EXCEPT !.whereConditions = Append(@, <<src.field, "=", "?">>)]
    ELSE b

\* where(conditionFn): src is conditionFn.toString() as the regular expression
\* sees it: matched or not, the captured field, and the captured right-hand
\* side classified as quoted ("quoted"), numeric ("num") or anything else ("expr")
where(b, src) ==
    IF src.matches
    THEN IF src.rhs.kind \in {"quoted", "num"}
         THEN [b EXCEPT !.whereConditions = Append(@, <<src.field, "=", "?">>),
                        !.whereParams = Append(@, ParsedValue(src.rhs))]
         ELSE b
    ELSE b

\* whereRaw(sql, params = [])
whereRaw(b, sql, params) ==
    [b EXCEPT !.whereConditions = Append(@, sql),
              !.whereParams = @ \o params]

\* String.prototype.toUpperCase on the direction words the callers pass
ToUpperCase(s) ==
    CASE s = "asc" -> "ASC"
      [] s = "desc" -> "DESC"
      [] s = "sideways" -> "SIDEWAYS"
      [] OTHER -> s

\* orderBy(field, direction = 'ASC'): direction is <<>> when omitted
orderBy(b, field, direction) ==
    [b EXCEPT !.orderByField = <<field>>,
              !.orderDirection = ToUpperCase(IF direction = <<>> THEN "ASC" ELSE direction[1])]

\* limit(count)
limit(b, count) == [b EXCEPT !.limitCount = <<count>>]

\* join(table, condition)
join(b, table, condition) ==
    [b EXCEPT !.joinClauses = Append(@, <<"JOIN", table, "ON", condition>>)]

\* leftJoin(table, condition)
leftJoin(b, table, condition) ==
    [b EXCEPT !.joinClauses = Append(@, <<"LEFT JOIN", table, "ON", condition>>)]

\* groupBy(fields): fields is [isArray, items]
groupBy(b, fields) ==
    [b EXCEPT !.groupByFields = IF fields.isArray THEN fields.items ELSE <<fields.items[1]>>]

\* get() with the ORDER BY part listed before the GROUP BY part
C1_CompileSelectSwapped(b) ==
    JoinBlank(FilterBoolean(
        << <<"SELECT">> \o b.selectFields \o <<"FROM", b.table>> >>
        \o b.joinClauses
        \o << AndText(Len(b.whereConditions) # 0,
                      <<"WHERE">> \o JoinWith(b.whereConditions, "AND")),
              AndText(Truthy(b.orderByField),
                      <<"ORDER BY">> \o b.orderByField \o <<b.orderDirection>>),
              AndText(Len(b.groupByFields) # 0,
                      <<"GROUP BY">> \o JoinWith(Words(b.groupByFields), ",")),
              AndText(b.limitCount # <<>>,
                      <<"LIMIT">> \o b.limitCount) >>))

\* the SQL text get() compiles
CompileSelect(b) ==
    JoinBlank(FilterBoolean(
        << <<"SELECT">> \o b.selectFields \o <<"FROM", b.table>> >>
        \o b.joinClauses
        \o << AndText(Len(b.whereConditions) # 0,
                      <<"WHERE">> \o JoinWith(b.whereConditions, "AND")),
              AndText(Len(b.groupByFields) # 0,
                      <<"GROUP BY">> \o JoinWith(Words(b.groupByFields), ",")),
              AndText(Truthy(b.orderByField),
                      <<"ORDER BY">> \o b.orderByField \o <<b.orderDirection>>),
              AndText(b.limitCount # <<>>,
                      <<"LIMIT">> \o b.limitCount) >>))


\* count() compiled on the receiver itself with the column list replaced
C14_CountBuilderOnReceiver(b) == [b EXCEPT !.selectFields = <<"COUNT(*) as count">>]

\* count() on a new builder that takes nothing over from the receiver
C13_CountBuilderNoFilters(b) ==
    select(QueryBuilder(b.table), [isArray |-> FALSE, items |-> <<"COUNT(*) as count">>])

\* the derived builder count() compiles
CountBuilder(b) ==
    [select(QueryBuilder(b.table), [isArray |-> FALSE, items |-> <<"COUNT(*) as count">>])
        EXCEPT !.whereConditions = b.whereConditions,
               !.whereParams = b.whereParams,
               !.joinClauses = b.joinClauses]

\* Object.keys / Object.values of the staged payload
RECURSIVE Keys(_)
Keys(data) == IF data = <<>> THEN <<>> ELSE <<Head(data)[1]>> \o Keys(Tail(data))

RECURSIVE Values(_)
Values(data) == IF data = <<>> THEN <<>> ELSE <<Head(data)[2]>> \o Values(Tail(data))

\* keys.map(() => '?')
RECURSIVE Placeholders(_)
Placeholders(keys) == IF keys = <<>> THEN <<>> ELSE <<"?">> \o Placeholders(Tail(keys))

\* the SQL text insertAndGet() compiles
CompileInsert(b) ==
    LET keys == Keys(b.insertData[1])
    IN <<"INSERT INTO", b.table, "(">> \o JoinWith(Words(keys), ",")
       \o <<")", "VALUES", "(">> \o JoinWith(Words(Placeholders(keys)), ",") \o <<")">>

\* `${values}`: Array.prototype.toString of the parameter list
RECURSIVE ValuesText(_)
ValuesText(values) ==
    IF values = <<>> THEN <<>>
    ELSE IF Len(values) = 1 THEN <<values[1].v>>
    ELSE <<values[1].v, ",">> \o ValuesText(Tail(values))

\* no operation in progress
NoSvc ==
    [op |-> "none", pc |-> "idle", userId |-> "", storyIds |-> <<>>,
     collectionId |-> <<>>, next |-> 0, pending |-> {}, done |-> {},
     reported |-> "none"]

\* a request not yet sent, and the response express creates for a request:
\* _redirectPatched unset, res.redirect the original (no wrapper around it)
NoReq == [method |-> "", path |-> <<>>, query |-> <<>>, via |-> "none"]
FreshRes ==
    [patched |-> FALSE, layers |-> 0, status |-> "none", location |-> <<>>,
     by |-> <<>>, asked |-> <<>>]

\* the server does not listen and dispatches nothing
NoHttp ==
    [listening |-> FALSE, pc |-> "idle", req |-> NoReq, res |-> FreshRes,
     pos |-> 0, hops |-> 0]

\* loadRoutes has not been called
NoLoader == [phase |-> "Unconfigured", variant |-> "", routesDir |-> <<>>, viewsDir |-> <<>>,
             files |-> <<>>, mounted |-> <<>>]

\* ------------------------------------------- the schema (create_db.sql)
\* the tables the modelled statements write: users has an AUTO_INCREMENT
\* primary key id, ratings has the primary key (user_id, story_id) and no id
TableNames == {"users", "ratings", "stories", "collections", "story_collections"}

\* tables created with `id INT AUTO_INCREMENT PRIMARY KEY`
AutoIncrementId(t) == t \in {"users", "collections", "stories", "chapters", "comments"}

\* the columns of a table that the modelled statements name
TableColumns(t) ==
    IF t = "users" THEN {"id", "username", "email"}
    ELSE IF t = "ratings" THEN {"user_id", "story_id", "rating"}
    ELSE IF t = "stories" THEN {"id", "title", "user_id", "stories.user_id"}
    ELSE IF t = "collections" THEN {"id", "title", "description", "user_id"}
    ELSE IF t = "story_collections" THEN {"story_id", "collection_id"}
    ELSE {"id"}

EmptyTables == [t \in TableNames |-> <<>>]

\* ------------------------------------------------- executor (config/db.js)
NoErr == [code |-> "", fatal |-> FALSE, message |-> <<>>]
NoResult == [rows |-> <<>>, insertId |-> <<>>]

\* errors the driver raises when a connection cannot be established
ConnectErrors ==
    { [code |-> "ECONNREFUSED", fatal |-> TRUE, message |-> <<"connect ECONNREFUSED">>] }

\* errors the driver raises when an established connection ends
LossErrors ==
    { [code |-> "PROTOCOL_CONNECTION_LOST", fatal |-> TRUE, message |-> <<"Connection lost">>] }

FatalErrors == ConnectErrors \cup LossErrors

\* errors the server reports for one statement
StatementErrors ==
    { [code |-> "ER_DUP_ENTRY", fatal |-> FALSE, message |-> <<"Duplicate entry">>] }

\* errors a live connection emits that do not end it
OtherErrors ==
    { [code |-> "ER_NET_PACKETS_OUT_OF_ORDER", fatal |-> FALSE, message |-> <<"Packets out of order">>] }

NoPromise ==
    [st |-> "none", sql |-> <<>>, params |-> <<>>, conn |-> 0, sent |-> 0,
     reconnected |-> FALSE, reported |-> "none", val |-> NoResult, err |-> NoErr]

\* mysql.createConnection(config); db.connect(...); db.on('error', ...)
ensureConnection(cs, by) ==
    Append(cs, [state |-> "connecting", by |-> by, emitted |-> "none"])

\* query() without its liveness check
C4_NeverReconnect == FALSE

\* query() replacing the connection at every call
C5_AlwaysReconnect == TRUE

\* the liveness check of query()
NeedsReconnect == conns[db].state = "disconnected"

\* query(sql, params) up to the return of the promise, for request r
query(r, sql, params) ==
    LET reconnect == NeedsReconnect
        cs == IF reconnect THEN ensureConnection(conns, "query") ELSE conns
        cur == IF reconnect THEN Len(cs) ELSE db
    IN /\ reconnect => Len(conns) < MaxConns
       /\ conns' = cs
       /\ db' = cur
       /\ promise' = [promise EXCEPT ![r] =
              [NoPromise EXCEPT !.st = "pending", !.sql = sql, !.params = params,
                                !.conn = cur, !.sent = 1, !.reconnected = reconnect]]
       /\ UNCHANGED crashed

\* the callback resolving with what it got, the error ignored
C6_queryCallbackNoReject(p, err, results) == [p EXCEPT !.st = "resolved", !.val = results]

\* the callback query() hands to db.query
queryCallback(p, err, results) ==
    IF err # NoErr
    THEN [p EXCEPT !.st = "rejected", !.err = err]
    ELSE [p EXCEPT !.st = "resolved", !.val = results]

\* a handler that takes every error for a lost connection
C8_ClassifyAll(err) == TRUE

\* the classification made by the 'error' handler
IsConnectionLoss(err) == err.code = "PROTOCOL_CONNECTION_LOST" \/ err.fatal

\* a handler that only logs
C7_errorHandlerLogOnly(cs, c, err) ==
    /\ conns' = cs
    /\ db' = db
    /\ UNCHANGED crashed

\* the 'error' handler every connection gets; cs is the connection list as the
\* driver left it, c the connection that emits
errorHandler(cs, c, err) ==
    IF IsConnectionLoss(err)
    THEN /\ Len(cs) < MaxConns
         /\ conns' = ensureConnection(cs, "event")
         /\ db' = Len(cs) + 1
         /\ UNCHANGED crashed
    ELSE /\ conns' = cs
         /\ db' = db
         /\ crashed' = TRUE

\* --------------------------------------------------------------- the driver
\* the requests whose statement is queued on connection c
Waiting(c) == {r \in Requests : promise[r].st = "pending" /\ promise[r].conn = c}

\* destroy(): the test hook, called between statements; the driver closes the
\* socket and raises no event
destroy ==
    /\ ~crashed
    /\ Waiting(db) = {}
    /\ conns[db].state # "disconnected"
    /\ conns' = [conns EXCEPT ![db].state = "disconnected"]
    /\ UNCHANGED <<db, promise, crashed, qbVars>>
    /\ UNCHANGED tables
    /\ UNCHANGED loader
    /\ UNCHANGED appVars

\* what the server may answer to a statement
DriverResults(sql) ==
    IF sql[1] = "INSERT INTO"
    THEN { [rows |-> <<>>, insertId |-> <<[t |-> "num", v |-> k]>>] : k \in {"7", "8"} }
    ELSE IF sql[2] = "COUNT(*) as count"
    THEN { [rows |-> <<[id |-> "", count |-> <<k>>]>>, insertId |-> <<>>] : k \in {0, 2} }
    ELSE { [rows |-> rs, insertId |-> <<>>] :
             rs \in { <<>>,
                      <<[id |-> "r1", count |-> <<>>], [id |-> "r2", count |-> <<>>]>> } }

\* the handshake of connection c succeeds; the connect callback logs
DriverConnected(c) ==
    /\ ~crashed
    /\ conns[c].state = "connecting"
    /\ conns' = [conns EXCEPT ![c].state = "connected"]
    /\ UNCHANGED <<db, promise, crashed, qbVars>>
    /\ UNCHANGED tables
    /\ UNCHANGED loader
    /\ UNCHANGED appVars

\* connection c ends with a fatal error (the handshake fails, or the
\* established connection is lost): its state becomes 'disconnected', every
\* statement queued on it gets the error in its callback, and, when emit, the
\* driver raises the 'error' event in the same turn
DriverConnectionDies(c, err, emit) ==
    /\ ~crashed
    /\ conns[c].state \in {"connecting", "connected"}
    /\ err \in (IF conns[c].state = "connecting" THEN ConnectErrors ELSE LossErrors)
    /\ promise' = [r \in Requests |->
                     IF r \in Waiting(c)
                     THEN [queryCallback(promise[r], err, NoResult) EXCEPT !.reported = "error"]
                     ELSE promise[r]]
    /\ IF emit
       THEN errorHandler([conns EXCEPT ![c].state = "disconnected", ![c].emitted = "fatal"],
                         c, err)
       ELSE /\ conns' = [conns EXCEPT ![c].state = "disconnected"]
            /\ UNCHANGED <<db, crashed>>
    /\ UNCHANGED qbVars
    /\ UNCHANGED tables
    /\ UNCHANGED loader
    /\ UNCHANGED appVars

\* a live connection raises an 'error' event that does not end it
DriverOtherError(c, err) ==
    /\ ~crashed
    /\ conns[c].state = "connected"
    /\ errorHandler([conns EXCEPT ![c].emitted = "other"], c, err)
    /\ UNCHANGED <<promise, qbVars>>
    /\ UNCHANGED tables
    /\ UNCHANGED loader
    /\ UNCHANGED appVars

\* the server answers the statement of request r with rows
DriverRows(r, results) ==
    /\ ~crashed
    /\ promise[r].st = "pending"
    /\ conns[promise[r].conn].state = "connected"
    /\ promise' = [promise EXCEPT ![r] =
                      [queryCallback(promise[r], NoErr, results) EXCEPT !.reported = "rows"]]
    /\ UNCHANGED <<db, conns, crashed, qbVars>>
    /\ UNCHANGED tables
    /\ UNCHANGED loader
    /\ UNCHANGED appVars

\* the server answers the statement of request r with an error
DriverStatementError(r, err) ==
    /\ ~crashed
    /\ promise[r].st = "pending"
    /\ conns[promise[r].conn].state = "connected"
    /\ promise' = [promise EXCEPT ![r] =
                      [queryCallback(promise[r], err, NoResult) EXCEPT !.reported = "error"]]
    /\ UNCHANGED <<db, conns, crashed, qbVars>>
    /\ UNCHANGED tables
    /\ UNCHANGED loader
    /\ UNCHANGED appVars

\* ------------------------------------------------ terminal calls of a builder
NoCall == [kind |-> "none", st |-> "none", sql |-> <<>>, params |-> <<>>,
           val |-> <<>>, err |-> NoErr]

\* get() of builder b, entered as terminal call `kind` of request 1: compiles
\* and hands the statement to query()
IssueSelect(kind, b) ==
    LET sql == CompileSelect(b)
    IN /\ call' = [NoCall EXCEPT !.kind = kind, !.st = "awaiting",
                                 !.sql = sql, !.params = b.whereParams]
       /\ query(1, sql, b.whereParams)

\* what get() settles with, given the settled promise of query()
getOutcome(p) ==
    IF p.st = "rejected"
    THEN [st |-> "rejected", val |-> <<>>, err |-> p.err]
    ELSE [st |-> "resolved", val |-> p.val.rows, err |-> NoErr]

\* first() raising when no row matched
C15_firstOutcomeThrows(p) ==
    LET g == getOutcome(p)
    IN IF g.st = "rejected" THEN g
       ELSE IF g.val # <<>> THEN [g EXCEPT !.val = <<g.val[1]>>]
       ELSE [st |-> "rejected", val |-> <<>>,
             err |-> [code |-> "", fatal |-> FALSE, message |-> <<"not found">>]]

\* what first() settles with: rows[0] || null
firstOutcome(p) ==
    LET g == getOutcome(p)
    IN IF g.st = "rejected" THEN g
       ELSE [g EXCEPT !.val = IF g.val # <<>> THEN <<g.val[1]>> ELSE <<>>]

\* count() answering 0 when the statement failed
C10_countOutcomeDefault(p) ==
    LET g == getOutcome(p)
    IN IF g.st = "rejected" THEN [st |-> "resolved", val |-> <<0>>, err |-> NoErr]
       ELSE [g EXCEPT !.val = IF g.val # <<>> /\ g.val[1].count # <<>>
                               THEN <<g.val[1].count[1]>> ELSE <<0>>]

\* what count() settles with: result[0]?.count || 0
countOutcome(p) ==
    LET g == getOutcome(p)
    IN IF g.st = "rejected" THEN g
       ELSE [g EXCEPT !.val = IF g.val # <<>> /\ g.val[1].count # <<>>
                               THEN <<g.val[1].count[1]>> ELSE <<0>>]

\* insertAndGet() reading result.id, which an INSERT result does not have
C11_insertAndGetOutcomeNoKey(p, sql, values) ==
    IF p.st = "rejected"
    THEN [st |-> "rejected", val |-> <<>>,
          err |-> [p.err EXCEPT !.message =
                     <<"Query failed:">> \o sql \o <<"| Params:">> \o ValuesText(values)
                     \o <<"| Error:">> \o p.err.message]]
    ELSE [st |-> "resolved", val |-> <<[id |-> <<>>]>>, err |-> NoErr]

\* what insertAndGet() settles with: { id: result.insertId }, or the error
\* with the statement written into its message
insertAndGetOutcome(p, sql, values) ==
    IF p.st = "rejected"
    THEN [st |-> "rejected", val |-> <<>>,
          err |-> [p.err EXCEPT !.message =
                     <<"Query failed:">> \o sql \o <<"| Params:">> \o ValuesText(values)
                     \o <<"| Error:">> \o p.err.message]]
    ELSE [st |-> "resolved", val |-> <<[id |-> p.val.insertId]>>, err |-> NoErr]

Outcome(c, p) ==
    CASE c.kind = "get" -> getOutcome(p)
      [] c.kind = "first" -> firstOutcome(p)
      [] c.kind = "count" -> countOutcome(p)
      [] c.kind = "insertAndGet" -> insertAndGetOutcome(p, c.sql, c.params)

Idle == ~crashed /\ call.st = "none" /\ promise[1].st = "none"

get ==
    /\ Idle
    /\ IssueSelect("get", qb)
    /\ UNCHANGED <<qb, ghost>>
    /\ UNCHANGED tables
    /\ UNCHANGED loader
    /\ UNCHANGED appVars

first ==
    /\ Idle
    /\ qb' = limit(qb, "1")
    /\ IssueSelect("first", qb')
    /\ UNCHANGED ghost
    /\ UNCHANGED tables
    /\ UNCHANGED loader
    /\ UNCHANGED appVars

count ==
    /\ Idle
    /\ IssueSelect("count", CountBuilder(qb))
    /\ UNCHANGED <<qb, ghost>>
    /\ UNCHANGED tables
    /\ UNCHANGED loader
    /\ UNCHANGED appVars

insertAndGet ==
    /\ Idle
    /\ IF qb.insertData = <<>>
       THEN /\ call' = [NoCall EXCEPT !.kind = "insertAndGet", !.st = "rejected",
                           !.err = [code |-> "", fatal |-> FALSE,
                                    message |-> <<"No data provided to insert">>]]
            /\ UNCHANGED dbVars
       ELSE /\ call' = [NoCall EXCEPT !.kind = "insertAndGet", !.st = "awaiting",
                           !.sql = CompileInsert(qb), !.params = Values(qb.insertData[1])]
            /\ query(1, CompileInsert(qb), Values(qb.insertData[1]))
    /\ UNCHANGED <<qb, ghost>>
    /\ UNCHANGED tables
    /\ UNCHANGED loader
    /\ UNCHANGED appVars

\* the terminal call resumes after its await and settles
Return ==
    /\ ~crashed
    /\ call.st = "awaiting"
    /\ promise[1].st \in {"resolved", "rejected"}
    /\ LET o == Outcome(call, promise[1])
       IN call' = [call EXCEPT !.st = o.st, !.val = o.val, !.err = o.err]
    /\ UNCHANGED <<qb, ghost, dbVars>>
    /\ UNCHANGED tables
    /\ UNCHANGED loader
    /\ UNCHANGED appVars

\* --------------------------------------------------- chain calls on a builder
V1 == [t |-> "num", v |-> "1"]
V2 == [t |-> "str", v |-> "bob"]

FreshGhost == [fieldCalls |-> <<>>, otherFilter |-> FALSE, intended |-> <<>>,
               rawMismatch |-> FALSE, inserted |-> <<>>, twin |-> QueryBuilder("stories")]

SelectArgs == { [isArray |-> TRUE, items |-> <<"id", "title">>] }
FieldArgs == { <<"user_id", V1>>, <<"story_id", V2>> }
WhereArgs ==
    { [matches |-> TRUE, field |-> "username", rhs |-> [kind |-> "quoted", text |-> "bob"]],
      [matches |-> TRUE, field |-> "user_id", rhs |-> [kind |-> "expr", text |-> "userId"]],
      [matches |-> FALSE, field |-> "", rhs |-> [kind |-> "expr", text |-> ""]] }
RawArgs ==
    { << <<"(", "s.title", "LIKE", "?", "OR", "s.synopsis", "LIKE", "?", ")">>, <<V2, V2>> >>,
      << <<"username", "LIKE", "?">>, <<>> >> }
OrderArgs == { <<"created_at", <<>>>>, <<"s.updated_at", <<"desc">>>>,
               <<"created_at", <<"sideways">>>> }
LimitArgs == { "0", "10" }
JoinArgs == { <<"users as u", "s.user_id = u.id">> }
LeftJoinArgs == { <<"ratings as r", "s.id = r.story_id">> }
GroupArgs == { [isArray |-> TRUE, items |-> <<"c.id", "c.title">>],
               [isArray |-> FALSE, items |-> <<"s.id">>] }
InsertArgs == { << <<"title", V2>>, <<"user_id", V1>> >> }

\* number of '?' placeholders of a text
CountQ(text) == Len(SelectSeq(text, LAMBDA t : t = "?"))

Building == ~crashed /\ call.st = "none"

CallSelect ==
    /\ Building
    /\ \E a \in SelectArgs : qb' = select(qb, a)
    /\ qb' # qb
    /\ UNCHANGED <<ghost, call, dbVars>>
    /\ UNCHANGED tables
    /\ UNCHANGED loader
    /\ UNCHANGED appVars

CallWhereField ==
    /\ Building
    /\ Len(qb.whereConditions) < MaxWhere
    /\ \E a \in FieldArgs :
         /\ qb' = whereField(qb, a[1], a[2])
         /\ ghost' = [ghost EXCEPT !.fieldCalls = Append(@, a), !.intended = Append(@, a[2])]
    /\ UNCHANGED <<call, dbVars>>
    /\ UNCHANGED tables
    /\ UNCHANGED loader
    /\ UNCHANGED appVars

CallWhere ==
    /\ Building
    /\ Len(qb.whereConditions) < MaxWhere
    /\ \E a \in WhereArgs :
         /\ qb' = where(qb, a)
         /\ ghost' = [ghost EXCEPT !.otherFilter = TRUE,
                         !.intended = IF a.matches /\ a.rhs.kind # "expr"
                                      THEN Append(@, ParsedValue(a.rhs)) ELSE @]
    /\ UNCHANGED <<call, dbVars>>
    /\ UNCHANGED tables
    /\ UNCHANGED loader
    /\ UNCHANGED appVars

CallWhereRaw ==
    /\ Building
    /\ Len(qb.whereConditions) < MaxWhere
    /\ \E a \in RawArgs :
         /\ qb' = whereRaw(qb, a[1], a[2])
         /\ ghost' = [ghost EXCEPT !.otherFilter = TRUE,
                         !.intended = @ \o a[2],
                         !.rawMismatch = @ \/ CountQ(a[1]) # Len(a[2])]
    /\ UNCHANGED <<call, dbVars>>
    /\ UNCHANGED tables
    /\ UNCHANGED loader
    /\ UNCHANGED appVars

CallOrderBy ==
    /\ Building
    /\ \E a \in OrderArgs : qb' = orderBy(qb, a[1], a[2])
    /\ qb' # qb
    /\ UNCHANGED <<ghost, call, dbVars>>
    /\ UNCHANGED tables
    /\ UNCHANGED loader
    /\ UNCHANGED appVars

CallLimit ==
    /\ Building
    /\ \E a \in LimitArgs : qb' = limit(qb, a)
    /\ qb' # qb
    /\ UNCHANGED <<ghost, call, dbVars>>
    /\ UNCHANGED tables
    /\ UNCHANGED loader
    /\ UNCHANGED appVars

CallJoin ==
    /\ Building
    /\ Len(qb.joinClauses) < MaxJoin
    /\ \E a \in JoinArgs : qb' = join(qb, a[1], a[2])
    /\ UNCHANGED <<ghost, call, dbVars>>
    /\ UNCHANGED tables
    /\ UNCHANGED loader
    /\ UNCHANGED appVars

CallLeftJoin ==
    /\ Building
    /\ Len(qb.joinClauses) < MaxJoin
    /\ \E a \in LeftJoinArgs : qb' = leftJoin(qb, a[1], a[2])
    /\ UNCHANGED <<ghost, call, dbVars>>
    /\ UNCHANGED tables
    /\ UNCHANGED loader
    /\ UNCHANGED appVars

CallGroupBy ==
    /\ Building
    /\ \E a \in GroupArgs : qb' = groupBy(qb, a)
    /\ qb' # qb
    /\ UNCHANGED <<ghost, call, dbVars>>
    /\ UNCHANGED tables
    /\ UNCHANGED loader
    /\ UNCHANGED appVars

\* db.table(tableName): the settled call is over, the next statement gets a
\* new builder
NewBuilder ==
    /\ ~crashed
    /\ call.st \in {"resolved", "rejected"}
    /\ qb' = QueryBuilder("stories")
    /\ ghost' = FreshGhost
    /\ call' = NoCall
    /\ promise' = [promise EXCEPT ![1] = NoPromise]
    /\ UNCHANGED <<db, conns, crashed>>
    /\ UNCHANGED tables
    /\ UNCHANGED loader
    /\ UNCHANGED appVars

\* the driver settles the statement of the builder's call
DriverAnswers ==
    /\ promise[1].st = "pending"
    /\ \/ \E res \in DriverResults(promise[1].sql) : DriverRows(1, res)
       \/ \E err \in StatementErrors : DriverStatementError(1, err)

InitQB ==
    /\ qb = QueryBuilder("stories")
    /\ ghost = FreshGhost
    /\ call = NoCall
    /\ db = 1
    /\ conns = <<[state |-> "connected", by |-> "init", emitted |-> "none"]>>
    /\ promise = [r \in Requests |-> NoPromise]
    /\ crashed = FALSE
    /\ tables = EmptyTables
    /\ svc = NoSvc
    /\ http = NoHttp
    /\ loader = NoLoader

NextQB ==
    \/ CallSelect
    \/ CallWhereField
    \/ CallWhere
    \/ CallWhereRaw
    \/ CallOrderBy
    \/ CallLimit
    \/ CallJoin
    \/ CallLeftJoin
    \/ CallGroupBy
    \/ get
    \/ first
    \/ count
    \/ DriverAnswers
    \/ Return
    \/ NewBuilder

\* one builder: chain calls in any order, a terminal call, the driver's answer
SpecQB == InitQB /\ [][NextQB]_vars


\* ------------------------------------- requests on the shared connection
\* builders as the services make them
SampleBuilders ==
    { QueryBuilder("users"),
      orderBy(whereField(QueryBuilder("stories"), "user_id", V1), "created_at", <<"DESC">>),
      insert(QueryBuilder("users"), << <<"username", V2>>, <<"user_id", V1>> >>) }

\* the call of request 1 is over; its next statement gets a new builder
Discard ==
    /\ ~crashed
    /\ call.st \in {"resolved", "rejected"}
    /\ qb' \in SampleBuilders
    /\ call' = NoCall
    /\ promise' = [promise EXCEPT ![1] = NoPromise]
    /\ UNCHANGED <<ghost, db, conns, crashed>>
    /\ UNCHANGED tables
    /\ UNCHANGED loader
    /\ UNCHANGED appVars

\* a request hands the statement of a get() on a fresh builder to query()
ClientGet(r) ==
    /\ ~crashed
    /\ promise[r].st = "none"
    /\ query(r, CompileSelect(QueryBuilder("users")), <<>>)
    /\ UNCHANGED qbVars
    /\ UNCHANGED tables
    /\ UNCHANGED loader
    /\ UNCHANGED appVars

\* the request took the outcome of its call
ClientDone(r) ==
    /\ ~crashed
    /\ promise[r].st \in {"resolved", "rejected"}
    /\ promise' = [promise EXCEPT ![r] = NoPromise]
    /\ UNCHANGED <<db, conns, crashed, qbVars>>
    /\ UNCHANGED tables
    /\ UNCHANGED loader
    /\ UNCHANGED appVars

\* the server answers the statement of request r
DriverSettles(r) ==
    /\ promise[r].st = "pending"
    /\ \/ \E res \in DriverResults(promise[r].sql) : DriverRows(r, res)
       \/ \E err \in StatementErrors : DriverStatementError(r, err)

DriverHandshake == \E c \in 1..Len(conns) : DriverConnected(c)

DriverEnds ==
    \E c \in 1..Len(conns), err \in FatalErrors, emit \in BOOLEAN :
        DriverConnectionDies(c, err, emit)

DriverRaises == \E c \in 1..Len(conns), err \in OtherErrors : DriverOtherError(c, err)

InitDB ==
    /\ qb = QueryBuilder("users")
    /\ ghost = FreshGhost
    /\ call = NoCall
    /\ db = 1
    /\ conns = ensureConnection(<<>>, "init")
    /\ promise = [r \in Requests |-> NoPromise]
    /\ crashed = FALSE
    /\ tables = EmptyTables
    /\ svc = NoSvc
    /\ http = NoHttp
    /\ loader = NoLoader

NextDB ==
    \/ \E r \in Requests : ClientGet(r)
    \/ \E r \in Requests : ClientDone(r)
    \/ \E r \in Requests : DriverSettles(r)
    \/ DriverHandshake
    \/ DriverEnds
    \/ DriverRaises
    \/ destroy

\* concurrent requests, the shared connection and the driver
SpecDB == InitDB /\ [][NextDB]_vars

\* the driver answers: a handshake in progress ends, a statement queued on an
\* established connection gets its callback
FairSpecDB ==
    /\ SpecDB
    /\ \A r \in Requests : WF_vars(DriverSettles(r))
    /\ WF_vars(DriverHandshake)

InitTerm ==
    /\ qb \in SampleBuilders
    /\ ghost = FreshGhost
    /\ call = NoCall
    /\ db = 1
    /\ conns = ensureConnection(<<>>, "init")
    /\ promise = [r \in Requests |-> NoPromise]
    /\ crashed = FALSE
    /\ tables = EmptyTables
    /\ svc = NoSvc
    /\ http = NoHttp
    /\ loader = NoLoader

NextTerm ==
    \/ get
    \/ first
    \/ count
    \/ insertAndGet
    \/ Return
    \/ Discard
    \/ DriverSettles(1)
    \/ DriverHandshake
    \/ DriverEnds
    \/ DriverRaises
    \/ destroy

\* the terminal calls of one request's builder, the connection and the driver
SpecTerm == InitTerm /\ [][NextTerm]_vars

\* ================================================================== claims
\* reading a compiled text back: where each clause keyword stands
Pos(text, kw) == {i \in 1..Len(text) : text[i] = kw}

ClauseRank(tok) ==
    CASE tok = "SELECT" -> 1
      [] tok = "FROM" -> 2
      [] tok \in {"JOIN", "LEFT JOIN"} -> 3
      [] tok = "WHERE" -> 4
      [] tok = "GROUP BY" -> 5
      [] tok = "ORDER BY" -> 6
      [] tok = "LIMIT" -> 7
      [] OTHER -> 0

Has(text, kw) == Pos(text, kw) # {}

\* the text between WHERE and the next clause keyword
WhereClause(text) ==
    IF ~Has(text, "WHERE") THEN <<>>
    ELSE LET w == CHOOSE i \in Pos(text, "WHERE") : TRUE
             ends == {j \in (w + 1)..Len(text) : ClauseRank(text[j]) > 4}
             e == IF ends = {} THEN Len(text) + 1
                  ELSE CHOOSE j \in ends : \A k \in ends : j <= k
         IN SubSeq(text, w + 1, e - 1)

\* the statement of a get() or first() made on qb has just been compiled
SelectIssued == call.kind \in {"get", "first"} /\ call.st = "awaiting"

\* C1: whatever the order of the chain calls, the text get() compiles starts
\* with SELECT <cols> FROM <table>, its clause keywords stand in the order JOIN
\* clauses, WHERE, GROUP BY, ORDER BY, LIMIT, each of the last four at most
\* once, and a clause stands in the text exactly when its state is set (no
\* filter: no WHERE; no grouping column: no GROUP BY; no order key: no ORDER
\* BY; no limit: no LIMIT; no join: no JOIN)
C1_ClauseOrder ==
    SelectIssued =>
        LET t == call.sql
        IN /\ t[1] = "SELECT"
           /\ SubSeq(t, 2, Len(qb.selectFields) + 1) = qb.selectFields
           /\ SubSeq(t, Len(qb.selectFields) + 2, Len(qb.selectFields) + 3)
                = <<"FROM", qb.table>>
           /\ LET K == {i \in 1..Len(t) : ClauseRank(t[i]) > 0}
              IN \A i, j \in K :
                   i < j => /\ ClauseRank(t[i]) <= ClauseRank(t[j])
                            /\ ClauseRank(t[i]) = ClauseRank(t[j]) => ClauseRank(t[i]) = 3
           /\ Cardinality(Pos(t, "JOIN") \cup Pos(t, "LEFT JOIN")) = Len(qb.joinClauses)
           /\ Has(t, "WHERE") <=> qb.whereConditions # <<>>
           /\ Has(t, "GROUP BY") <=> qb.groupByFields # <<>>
           /\ Has(t, "ORDER BY") <=> qb.orderByField # <<>>
           /\ Has(t, "LIMIT") <=> qb.limitCount # <<>>

\* C1 witness: a get() whose text holds all five optional clauses
C1_Witness ==
    /\ call.kind = "get" /\ call.st = "awaiting"
    /\ Has(call.sql, "LEFT JOIN") /\ Has(call.sql, "WHERE") /\ Has(call.sql, "GROUP BY")
    /\ Has(call.sql, "ORDER BY") /\ Has(call.sql, "LIMIT")

\* the values / fragments of the whereField calls made so far, in call order
RECURSIVE FieldValues(_)
FieldValues(calls) ==
    IF calls = <<>> THEN <<>> ELSE <<Head(calls)[2]>> \o FieldValues(Tail(calls))

RECURSIVE FieldFragments(_)
FieldFragments(calls) ==
    IF calls = <<>> THEN <<>>
    ELSE << <<Head(calls)[1], "=", "?">> >> \o FieldFragments(Tail(calls))

\* C2: on a builder that got n whereField calls and no other filter call,
\* whereParams is the list of the n values in call order, and the text get()
\* compiles has exactly n placeholders, its WHERE clause being the fragments
\* 'field_i = ?' in call order joined by AND (no WHERE clause for n = 0)
C2_WhereFieldParams ==
    ~ghost.otherFilter =>
        /\ qb.whereParams = FieldValues(ghost.fieldCalls)
        /\ SelectIssued =>
             /\ call.params = FieldValues(ghost.fieldCalls)
             /\ CountQ(call.sql) = Len(ghost.fieldCalls)
             /\ WhereClause(call.sql) = JoinWith(FieldFragments(ghost.fieldCalls), "AND")

\* C2 witness: a get() after two whereField calls with different values and
\* other chain calls
C2_Witness ==
    /\ call.kind = "get" /\ call.st = "awaiting"
    /\ ~ghost.otherFilter
    /\ Len(ghost.fieldCalls) = 2
    /\ ghost.fieldCalls[1][2] # ghost.fieldCalls[2][2]
    /\ Has(call.sql, "ORDER BY") /\ Has(call.sql, "JOIN")

\* C3 as stated: after any filter calls the placeholders of the fragments are
\* as many as the parameters
C3_Original == CountQ(JoinWith(qb.whereConditions, "AND")) = Len(qb.whereParams)

\* C3 amended: when every whereRaw call passed as many parameters as its
\* fragment has placeholders, the placeholders of the filter fragments are as
\* many as whereParams, whereParams lists the values in the order of the
\* placeholders they were passed for, and so do the text and the parameter
\* list of a compiled statement
C3_PlaceholdersMatchParams ==
    ~ghost.rawMismatch =>
        /\ CountQ(JoinWith(qb.whereConditions, "AND")) = Len(qb.whereParams)
        /\ qb.whereParams = ghost.intended
        /\ SelectIssued =>
             /\ CountQ(call.sql) = Len(call.params)
             /\ call.params = ghost.intended

\* C3 witness: a compiled statement whose filters came from whereRaw and
\* where(fn), a skipped where(fn) among the calls
C3_Witness ==
    /\ call.kind = "get" /\ call.st = "awaiting"
    /\ ~ghost.rawMismatch
    /\ ghost.otherFilter
    /\ Len(call.params) = 3
    /\ Len(qb.whereConditions) = 2


\* ------------------------------------------------------ executor claims
\* request r calls query() in this step
QueryStep(r) == promise[r].st = "none" /\ promise'[r].st = "pending"

Settled(r) == promise[r].st \in {"resolved", "rejected"}

C7_ProactiveReconnect ==
    /\ [][\A c \in 1..Len(conns) :
            (/\ c = db
             /\ Waiting(c) = {}
             /\ conns[c].emitted = "none"
             /\ conns'[c].emitted = "fatal")
                => /\ Len(conns') = Len(conns) + 1
                   /\ db' = Len(conns')
                   /\ conns'[db'].state = "connecting"
                   /\ conns'[db'].by = "event"]_vars
    /\ [][\A r \in Requests :
            (QueryStep(r) /\ conns[db].by = "event" /\ conns[db].state # "disconnected")
                => /\ ~promise'[r].reconnected
                   /\ promise'[r].conn = db
                   /\ db' = db
                   /\ conns' = conns]_vars

\* C7 witness: a statement waits on a connection the handler created
C7_Witness ==
    \E r \in Requests :
        /\ promise[r].st = "pending"
        /\ ~promise[r].reconnected
        /\ promise[r].conn = db
        /\ conns[db].by = "event"

\* C8: when a connection raises an 'error' event for an error that does not
\* end it, the process dies and no connection is created; the handler creates
\* a connection only in a step in which a connection raised a fatal error
C8_OtherErrorsFatal ==
    /\ [][\A c \in 1..Len(conns) :
            (conns[c].emitted = "none" /\ conns'[c].emitted = "other")
                => crashed' /\ conns'[c].state = conns[c].state
                   /\ Len(conns') = Len(conns) /\ db' = db]_vars
    /\ [][(Len(conns') > Len(conns) /\ conns'[Len(conns')].by = "event")
            => \E c \in 1..Len(conns) :
                 conns[c].emitted = "none" /\ conns'[c].emitted = "fatal"]_vars
    /\ [](crashed => \E c \in 1..Len(conns) : conns[c].emitted = "other")

\* C8 witness: the process died of an error event of a replacement connection
C8_Witness == crashed /\ Len(conns) >= 2 /\ conns[db].emitted = "other"

\* ------------------------------------------------- terminal call claims
\* text stands in message, token for token
Carries(message, text) ==
    \E i \in 0..(Len(message) - Len(text)) : SubSeq(message, i + 1, i + Len(text)) = text

\* the driver reported an error for the statement of the builder's call, and
\* the call has settled
FailedCall == call.st \in {"resolved", "rejected"} /\ promise[1].reported = "error"

\* C9: when the driver reports an error for the statement of a terminal call,
\* the error the call rejects with carries the compiled SQL text and the
\* parameter list
C9_ErrorCarriesStatement ==
    (FailedCall /\ call.st = "rejected")
        => /\ Carries(call.err.message, call.sql)
           /\ Carries(call.err.message, ValuesText(call.params))

\* C10: when the driver reports an error for a statement, the promise of
\* query() rejects with it, the terminal call that issued the statement
\* rejects with that error (it does not resolve with [], null or 0), and the
\* statement was handed to the driver once
C10_NoSuppression ==
    /\ \A r \in Requests : promise[r].reported = "error" => promise[r].st = "rejected"
    /\ FailedCall => /\ call.st = "rejected"
                     /\ call.err.code = promise[1].err.code
                     /\ promise[1].sent = 1

\* C10 witness: a first() or count() whose statement the driver failed
C10_Witness == FailedCall /\ call.kind \in {"first", "count"} /\ call.st = "rejected"

\* an insertAndGet() that the driver answered with a result has settled
InsertReturned ==
    /\ call.kind = "insertAndGet"
    /\ call.st = "resolved"
    /\ promise[1].reported = "rows"

\* C11 as stated: the value insertAndGet() returns is the key the driver
\* reported
C11_Original == InsertReturned => call.val = promise[1].val.insertId

\* C11: insertAndGet() on a builder with a staged payload returns an object
\* whose id property is the key the driver reported (insertId) for the INSERT
\* statement the call issued
C11_ReturnsInsertId ==
    InsertReturned
        => /\ call.val = <<[id |-> promise[1].val.insertId]>>
           /\ promise[1].val.insertId # <<>>
           /\ promise[1].sql = CompileInsert(qb)
           /\ promise[1].params = Values(qb.insertData[1])

\* C11 witness: an insertAndGet() returned the key 8
C11_Witness == InsertReturned /\ call.val[1].id = <<[t |-> "num", v |-> "8"]>>

\* --------------------------------------- insert, then read the row back
\* the server's reading of a statement
FirstPos(text, kw) == CHOOSE i \in Pos(text, kw) : \A j \in Pos(text, kw) : i <= j

InsertColumns(sql) ==
    SelectSeq(SubSeq(sql, 4, FirstPos(sql, ")") - 1), LAMBDA tok : tok # ",")

Zip(cols, vals) == [i \in 1..Len(cols) |-> <<cols[i], vals[i]>>]

\* the value of column col in a row, a row being a list of <<column, value>>
Lookup(row, col) ==
    LET at == {i \in 1..Len(row) : row[i][1] = col}
    IN IF at = {} THEN <<>> ELSE <<row[CHOOSE i \in at : TRUE][2]>>

\* UNIQUE / PRIMARY KEY columns of create_db.sql that a payload can repeat
UniqueKey(t) == IF t = "users" THEN {"username"} ELSE {"user_id", "story_id"}

Duplicate(t, row) ==
    \E i \in 1..Len(tables[t]) :
        \A col \in UniqueKey(t) : Lookup(tables[t][i], col) = Lookup(row, col)

BadFieldError ==
    [code |-> "ER_BAD_FIELD_ERROR", fatal |-> FALSE, message |-> <<"Unknown column">>]

\* the server executes the INSERT of the builder's call: it stores the row,
\* with the next id where the table has an AUTO_INCREMENT id, and reports that
\* id as insertId (0 where the table generates none)
ServerInsert ==
    /\ ~crashed
    /\ promise[1].st = "pending"
    /\ conns[promise[1].conn].state = "connected"
    /\ promise[1].sql[1] = "INSERT INTO"
    /\ LET t == promise[1].sql[2]
           row == Zip(InsertColumns(promise[1].sql), promise[1].params)
           k == [t |-> "num",
                 v |-> IF AutoIncrementId(t) THEN ToString(Len(tables[t]) + 1) ELSE "0"]
       IN IF Duplicate(t, row)
          THEN /\ promise' = [promise EXCEPT ![1] =
                    [queryCallback(@, CHOOSE e \in StatementErrors : TRUE, NoResult)
                        EXCEPT !.reported = "error"]]
               /\ UNCHANGED tables
          ELSE /\ Len(tables[t]) < MaxRows
               /\ tables' = [tables EXCEPT ![t] =
                    Append(@, (IF AutoIncrementId(t) THEN << <<"id", k>> >> ELSE <<>>) \o row)]
               /\ promise' = [promise EXCEPT ![1] =
                    [queryCallback(@, NoErr, [rows |-> <<>>, insertId |-> <<k>>])
                        EXCEPT !.reported = "rows"]]
    /\ UNCHANGED <<db, conns, crashed, qbVars>>
    /\ UNCHANGED loader
    /\ UNCHANGED appVars

\* the server executes the SELECT of the builder's call on the stored rows:
\* the filter is empty or `column = ?` fragments joined by AND; COUNT(*)
\* answers one row holding the number of matching rows
ServerSelect ==
    /\ ~crashed
    /\ promise[1].st = "pending"
    /\ conns[promise[1].conn].state = "connected"
    /\ promise[1].sql[1] = "SELECT"
    /\ LET sql == promise[1].sql
           t == sql[FirstPos(sql, "FROM") + 1]
           w == WhereClause(sql)
           n == (Len(w) + 1) \div 4
           matching == SelectSeq(tables[t],
                          LAMBDA row : \A i \in 1..n :
                              Lookup(row, w[4 * i - 3]) = <<promise[1].params[i]>>)
           limited == IF Has(sql, "LIMIT") /\ sql[FirstPos(sql, "LIMIT") + 1] = "1"
                         /\ matching # <<>>
                      THEN <<matching[1]>> ELSE matching
           answer == IF sql[2] = "COUNT(*) as count"
                     THEN <<[id |-> "", count |-> <<Len(matching)>>]>>
                     ELSE limited
       IN IF \E i \in 1..n : w[4 * i - 3] \notin TableColumns(t)
          THEN promise' = [promise EXCEPT ![1] =
                    [queryCallback(@, BadFieldError, NoResult) EXCEPT !.reported = "error"]]
          ELSE promise' = [promise EXCEPT ![1] =
                    [queryCallback(@, NoErr, [rows |-> answer, insertId |-> <<>>])
                        EXCEPT !.reported = "rows"]]
    /\ UNCHANGED <<db, conns, crashed, tables, qbVars>>
    /\ UNCHANGED loader
    /\ UNCHANGED appVars

\* payloads as the services stage them (authService.createUser,
\* storyService.insertRating): numbers and strings for INT and VARCHAR columns
Payloads ==
    { [table |-> "users",
       data |-> << <<"username", [t |-> "str", v |-> u]>>,
                   <<"email", [t |-> "str", v |-> "a@b.c"]>> >>] : u \in {"bob", "ann", "cy"} }
    \cup
    { [table |-> "ratings",
       data |-> << <<"user_id", [t |-> "num", v |-> "1"]>>,
                   <<"story_id", [t |-> "num", v |-> s]>>,
                   <<"rating", [t |-> "num", v |-> "5"]>> >>] : s \in {"1", "2", "3"} }

\* db.table(t).insert(payload): the builder of the next INSERT
StageInsert ==
    /\ ~crashed
    /\ call.st \in {"resolved", "rejected"}
    /\ \E pl \in Payloads :
         /\ Len(tables[pl.table]) < MaxRows
         /\ qb' = insert(QueryBuilder(pl.table), pl.data)
    /\ ghost' = FreshGhost
    /\ call' = NoCall
    /\ promise' = [promise EXCEPT ![1] = NoPromise]
    /\ UNCHANGED <<db, conns, crashed, tables>>
    /\ UNCHANGED loader
    /\ UNCHANGED appVars

\* the caller of a successful insertAndGet() builds
\* db.table(t).whereField('id', result.id) to read the row back
LookupInserted ==
    /\ ~crashed
    /\ call.kind = "insertAndGet"
    /\ call.st = "resolved"
    /\ qb' = whereField(QueryBuilder(qb.table), "id", call.val[1].id[1])
    /\ ghost' = [ghost EXCEPT !.inserted =
                    <<[table |-> qb.table, data |-> qb.insertData[1], k |-> call.val[1].id[1]]>>]
    /\ call' = NoCall
    /\ promise' = [promise EXCEPT ![1] = NoPromise]
    /\ UNCHANGED <<db, conns, crashed, tables>>
    /\ UNCHANGED loader
    /\ UNCHANGED appVars

\* filters as the services build them (storyService: ratings of a user, the
\* rating a user gave a story; authService: the user of a name)
Filters ==
    { <<"ratings", <<>>>>,
      <<"ratings", << <<"user_id", [t |-> "num", v |-> "1"]>> >> >>,
      <<"ratings", << <<"user_id", [t |-> "num", v |-> "1"]>>,
                      <<"story_id", [t |-> "num", v |-> "2"]>> >> >>,
      <<"users", << <<"username", [t |-> "str", v |-> "bob"]>> >> >> }

RECURSIVE WhereFields(_, _)
WhereFields(b, fs) ==
    IF fs = <<>> THEN b ELSE WhereFields(whereField(b, fs[1][1], fs[1][2]), Tail(fs))

\* db.table(t).whereField(...)...: the builder of the next SELECT
StageFilter ==
    /\ ~crashed
    /\ call.st \in {"resolved", "rejected"}
    /\ \E f \in Filters :
         /\ Len(f[2]) <= MaxWhere
         /\ qb' = WhereFields(QueryBuilder(f[1]), f[2])
    /\ ghost' = FreshGhost
    /\ call' = NoCall
    /\ promise' = [promise EXCEPT ![1] = NoPromise]
    /\ UNCHANGED <<db, conns, crashed, tables>>
    /\ UNCHANGED loader
    /\ UNCHANGED appVars

InitRT ==
    /\ \E pl \in Payloads : qb = insert(QueryBuilder(pl.table), pl.data)
    /\ ghost = FreshGhost
    /\ call = NoCall
    /\ db = 1
    /\ conns = <<[state |-> "connected", by |-> "init", emitted |-> "none"]>>
    /\ promise = [r \in Requests |-> NoPromise]
    /\ crashed = FALSE
    /\ tables = EmptyTables
    /\ svc = NoSvc
    /\ http = NoHttp
    /\ loader = NoLoader

NextRT ==
    \/ insertAndGet
    \/ first
    \/ count
    \/ StageFilter
    \/ Return
    \/ ServerInsert
    \/ ServerSelect
    \/ LookupInserted
    \/ StageInsert

\* one caller inserting rows and reading them back, the server storing them
SpecRT == InitRT /\ [][NextRT]_vars

\* first() on the builder that names the key of the row just inserted has
\* settled
ReadBack == ghost.inserted # <<>> /\ call.kind = "first" /\ call.st \in {"resolved", "rejected"}

\* C12: after insert(payload).insertAndGet() succeeded on table t with key k,
\* table(t).whereField('id', k).first() returns a row, not null, whose value
\* for every column of the payload is the payload's value
C12_RoundTrip ==
    ReadBack
        => /\ call.st = "resolved"
           /\ call.val # <<>>
           /\ \A i \in 1..Len(ghost.inserted[1].data) :
                Lookup(call.val[1], ghost.inserted[1].data[i][1])
                    = <<ghost.inserted[1].data[i][2]>>

\* the rows of the builder's table that satisfy every whereField filter of b
MatchingRows(b) ==
    SelectSeq(tables[b.table],
        LAMBDA row : \A i \in 1..Len(b.whereConditions) :
            Lookup(row, b.whereConditions[i][1]) = <<b.whereParams[i]>>)

CountReturned == call.kind = "count" /\ call.st = "resolved"

\* C13: count() returns the number of stored rows that satisfy the filters of
\* the receiving builder: 0 when none does, k when exactly k do
C13_CountMatching == CountReturned => call.val = <<Len(MatchingRows(qb))>>

\* C13 witness: count() returned 1 where the table holds two rows and the
\* filters select one of them
C13_Witness ==
    /\ CountReturned
    /\ call.val = <<1>>
    /\ Len(tables[qb.table]) = 2
    /\ Len(qb.whereConditions) = 2

\* the statement of a count() made on qb has just been compiled
CountIssued == call.kind = "count" /\ call.st = "awaiting"

\* C14: the statement count() compiles selects COUNT(*) from the receiver's
\* table, carries the receiver's join clauses, filter fragments and parameters
\* in the receiver's order, and has no ORDER BY and no LIMIT; the call leaves
\* every field of the receiver as it was
C14_CountDerived ==
    /\ [](CountIssued =>
            LET joins == JoinBlank(qb.joinClauses)
            IN /\ SubSeq(call.sql, 1, 4) = <<"SELECT", "COUNT(*) as count", "FROM", qb.table>>
               /\ SubSeq(call.sql, 5, 4 + Len(joins)) = joins
               /\ WhereClause(call.sql) = JoinWith(qb.whereConditions, "AND")
               /\ call.params = qb.whereParams
               /\ ~Has(call.sql, "ORDER BY")
               /\ ~Has(call.sql, "LIMIT"))
    /\ [][(call.kind = "none" /\ call'.kind = "count") => qb' = qb]_vars

\* C14 witness: count() on a receiver with a column list, a join, a filter, a
\* sort key and a limit
C14_Witness ==
    /\ CountIssued
    /\ qb.selectFields # <<"*">>
    /\ qb.joinClauses # <<>>
    /\ qb.whereConditions # <<>>
    /\ Truthy(qb.orderByField)
    /\ qb.limitCount # <<>>

\* first() made on qb has settled
FirstSettled == call.kind = "first" /\ call.st \in {"resolved", "rejected"}

\* C15: the statement first() issues is the one get() compiles after
\* limit(1), whatever limit the builder had: it ends with its only LIMIT
\* clause, LIMIT 1; when the executor answers with rows, first() returns the
\* first of them, and null when there is none; first() rejects only when the
\* executor rejected
C15_FirstIsLimitOne ==
    /\ [][(call.kind = "none" /\ call'.kind = "first")
            => /\ call'.sql = CompileSelect(limit(qb, "1"))
               /\ call'.params = qb.whereParams
               /\ promise'[1].sql = call'.sql
               /\ SubSeq(call'.sql, Len(call'.sql) - 1, Len(call'.sql)) = <<"LIMIT", "1">>
               /\ Cardinality(Pos(call'.sql, "LIMIT")) = 1]_vars
    /\ [](FirstSettled =>
            IF promise[1].st = "resolved"
            THEN /\ call.st = "resolved"
                 /\ call.val = IF promise[1].val.rows = <<>> THEN <<>>
                               ELSE <<promise[1].val.rows[1]>>
            ELSE call.st = "rejected")

\* C15 witness: first() on a builder with a filter returned null
C15_Witness ==
    /\ FirstSettled
    /\ call.st = "resolved"
    /\ call.val = <<>>
    /\ qb.whereConditions # <<>>

\* ------------------------------ two builders, the same calls, other values
\* the values a caller passes to qb and, in the same place, to the twin
ValuePairs ==
    { << [t |-> "num", v |-> "42"], [t |-> "str", v |-> "x' OR '1'='1"] >>,
      << [t |-> "str", v |-> "bob"], [t |-> "num", v |-> "42"] >> }

PairBuilding == ~crashed /\ call.st = "none" /\ promise[1].st = "none"

PairWhereField ==
    /\ PairBuilding
    /\ Len(qb.whereConditions) < MaxWhere
    /\ \E f \in {"user_id", "username"}, vp \in ValuePairs :
         /\ qb' = whereField(qb, f, vp[1])
         /\ ghost' = [ghost EXCEPT !.twin = whereField(@, f, vp[2]),
                                   !.intended = Append(@, vp[1])]
    /\ UNCHANGED <<call, dbVars, tables>>
    /\ UNCHANGED loader
    /\ UNCHANGED appVars

PairWhereRaw ==
    /\ PairBuilding
    /\ Len(qb.whereConditions) < MaxWhere
    /\ \E vp \in ValuePairs :
         LET sql == <<"(", "s.title", "LIKE", "?", "OR", "s.synopsis", "LIKE", "?", ")">>
         IN /\ qb' = whereRaw(qb, sql, <<vp[1], vp[1]>>)
            /\ ghost' = [ghost EXCEPT !.twin = whereRaw(@, sql, <<vp[2], vp[2]>>),
                                      !.intended = @ \o <<vp[1], vp[1]>>]
    /\ UNCHANGED <<call, dbVars, tables>>
    /\ UNCHANGED loader
    /\ UNCHANGED appVars

PairInsert ==
    /\ PairBuilding
    /\ \E vp \in ValuePairs, wp \in ValuePairs :
         /\ qb' = insert(qb, << <<"title", vp[1]>>, <<"user_id", wp[1]>> >>)
         /\ ghost' = [ghost EXCEPT
                !.twin = insert(@, << <<"title", vp[2]>>, <<"user_id", wp[2]>> >>)]
    /\ qb' # qb
    /\ UNCHANGED <<call, dbVars, tables>>
    /\ UNCHANGED loader
    /\ UNCHANGED appVars

\* a chain call that takes no value: the same call on both builders
PairOther ==
    /\ PairBuilding
    /\ \/ \E a \in OrderArgs :
            /\ qb' = orderBy(qb, a[1], a[2])
            /\ ghost' = [ghost EXCEPT !.twin = orderBy(@, a[1], a[2])]
       \/ \E a \in LimitArgs :
            /\ qb' = limit(qb, a)
            /\ ghost' = [ghost EXCEPT !.twin = limit(@, a)]
       \/ \E a \in JoinArgs :
            /\ Len(qb.joinClauses) < MaxJoin
            /\ qb' = join(qb, a[1], a[2])
            /\ ghost' = [ghost EXCEPT !.twin = join(@, a[1], a[2])]
    /\ qb' # qb
    /\ UNCHANGED <<call, dbVars, tables>>
    /\ UNCHANGED loader
    /\ UNCHANGED appVars

InitPair ==
    /\ qb = QueryBuilder("stories")
    /\ ghost = FreshGhost
    /\ call = NoCall
    /\ db = 1
    /\ conns = <<[state |-> "connected", by |-> "init", emitted |-> "none"]>>
    /\ promise = [r \in Requests |-> NoPromise]
    /\ crashed = FALSE
    /\ tables = EmptyTables
    /\ svc = NoSvc
    /\ http = NoHttp
    /\ loader = NoLoader

NextPair ==
    \/ PairWhereField
    \/ PairWhereRaw
    \/ PairInsert
    \/ PairOther
    \/ get
    \/ insertAndGet
    \/ DriverAnswers
    \/ Return
    \/ NewBuilder

\* a builder and its twin receiving the same calls with other values
SpecPair == InitPair /\ [][NextPair]_vars

\* no token of the text is the text of one of the values
NoValueIn(text, values) ==
    \A i \in 1..Len(text), j \in 1..Len(values) : text[i] # values[j].v

\* C16: the statement get() or insertAndGet() hands to the executor has the
\* SQL text the twin builder compiles (the same calls with other values); no
\* value passed to whereField, to the params of whereRaw or as a value of the
\* insert payload is a token of that text, and the parameter array is the
\* list of those values in call order
C16_TextIndependentOfValues ==
    /\ CompileSelect(qb) = CompileSelect(ghost.twin)
    /\ qb.insertData # <<>> => CompileInsert(qb) = CompileInsert(ghost.twin)
    /\ (call.kind = "get" /\ call.st = "awaiting")
        => /\ call.sql = CompileSelect(ghost.twin)
           /\ NoValueIn(call.sql, ghost.intended)
           /\ call.params = ghost.intended
    /\ (call.kind = "insertAndGet" /\ call.st = "awaiting")
        => /\ call.sql = CompileInsert(ghost.twin)
           /\ NoValueIn(call.sql, Values(qb.insertData[1]))
           /\ call.params = Values(qb.insertData[1])

\* C16 witness: a get() on a builder that took, through whereField, whereRaw
\* and insert, values that all differ from those its twin took
C16_Witness ==
    /\ call.kind = "get"
    /\ call.st = "awaiting"
    /\ Len(qb.whereParams) = 3
    /\ \A i \in 1..3 : qb.whereParams[i] # ghost.twin.whereParams[i]
    /\ qb.insertData # <<>>
    /\ \A i \in 1..2 : Values(qb.insertData[1])[i] # Values(ghost.twin.insertData[1])[i]

\* C17: the ORDER BY clause of a compiled statement is the only one, names
\* the sort key of the last orderBy call, and its direction is ASC or DESC
C17_OrderDirection ==
    (SelectIssued /\ Has(call.sql, "ORDER BY"))
        => LET o == FirstPos(call.sql, "ORDER BY")
           IN /\ Cardinality(Pos(call.sql, "ORDER BY")) = 1
              /\ call.sql[o + 1] = qb.orderByField[1]
              /\ call.sql[o + 2] = qb.orderDirection
              /\ call.sql[o + 2] \in {"ASC", "DESC"}

\* ------------------------------------------------------------ loadRoutes
\* A file of the routes directory is [api, name, ext]: api-<name><ext> or
\* <name><ext>.  Paths and template names are token sequences.  A controller
\* is [exports, routes]: exports the ordered list of [name, type] of
\* Object.entries, routes <<>> or <<the ordered list of [def, handlers]>>, def
\* the words of the key, handlers [isArray, items], an item a name or a nested
\* list of names.

\* path.basename(file, '.js')
RouteName(file) == IF file.api THEN <<"api-", file.name>> ELSE <<file.name>>

\* a mount prefix that knows no distinguished name
C21_BaseRouteNoMain(file) ==
    IF file.api THEN <<"/api/", file.name>> ELSE <<"/", file.name>>

\* the mount prefix worked out from the file name
BaseRoute(file) ==
    IF file.api THEN <<"/api/", file.name>>
    ELSE IF file.name = "main" THEN <<>>
    ELSE <<"/", file.name>>

\* BASE_PATH of the loader that enforces a base path; the plain loader has none
BasePath(variant) == IF variant = "part_002" THEN <<"/usr/326">> ELSE <<>>

\* controller[h]
Export(ctrl, h) ==
    LET at == {i \in 1..Len(ctrl.exports) : ctrl.exports[i].name = h}
    IN IF at = {} THEN <<>> ELSE <<ctrl.exports[CHOOSE i \in at : TRUE]>>

\* [].concat(handlers).flat(): the names in the order written
RECURSIVE Flat(_)
Flat(items) == IF items = <<>> THEN <<>> ELSE Head(items).names \o Flat(Tail(items))

\* h => controller[h] || h
Resolve(ctrl, rn, h) ==
    IF Export(ctrl, h) # <<>>
    THEN [kind |-> Export(ctrl, h)[1].type, module |-> rn, name |-> <<h>>]
    ELSE [kind |-> "string", module |-> rn, name |-> <<h>>]

\* the chain resolved in reverse order
C18_ChainReversed(ctrl, rn, handlers) ==
    LET names == Flat(handlers.items)
    IN [i \in 1..Len(names) |-> Resolve(ctrl, rn, names[Len(names) + 1 - i])]

\* funs: the names flattened, resolved, the falsy ones dropped
Chain(ctrl, rn, handlers) ==
    LET names == SelectSeq(Flat(handlers.items), LAMBDA h : h # "")
    IN [i \in 1..Len(names) |-> Resolve(ctrl, rn, names[i])]

\* method.toLowerCase()
ToLowerCase(method) ==
    CASE method = "GET" -> "get"
      [] method = "POST" -> "post"
      [] method = "PUT" -> "put"
      [] method = "DELETE" -> "delete"
      [] OTHER -> method

\* express: router[method] exists for the HTTP verbs, and a route takes
\* functions and arrays of functions as handlers
IsVerb(method) == method \in {"get", "post", "put", "delete"}
Callable(h) == h.kind \in {"function", "array", "render"}

\* router[method](path, ...chain) on the router whose stack is reg.stack; it
\* raises when router[method] is undefined or a handler is not callable
Register(reg, method, path, chain) ==
    IF ~reg.ok THEN reg
    ELSE IF ~IsVerb(method) \/ \E i \in 1..Len(chain) : ~Callable(chain[i])
    THEN [reg EXCEPT !.ok = FALSE]
    ELSE [reg EXCEPT !.stack = Append(@, [method |-> method, path |-> path, chain |-> chain])]

NewRouter == [ok |-> TRUE, stack |-> <<>>]

\* Object.entries(controller.routes).forEach(...)
RECURSIVE ExplicitRoutes(_, _, _, _)
ExplicitRoutes(reg, ctrl, rn, entries) ==
    IF entries = <<>> THEN reg
    ELSE LET e == Head(entries)
             method == e.def[1]
             route == IF Len(e.def) >= 2 THEN <<e.def[2]>> ELSE <<>>
         IN ExplicitRoutes(Register(reg, ToLowerCase(method), route, Chain(ctrl, rn, e.handlers)),
                           ctrl, rn, Tail(entries))

\* router.stack.find(r => r.route.path === path)
Registered(reg, path) == \E i \in 1..Len(reg.stack) : reg.stack[i].path = path

RenderHandler(rn, sub) == [kind |-> "render", module |-> rn, name |-> rn \o <<"/">> \o sub]

\* router.get('/', controller.index), or the rendered index.ejs
IndexRoute(reg, ctrl, rn, views) ==
    IF Export(ctrl, "index") # <<>>
    THEN Register(reg, "get", <<"/">>, <<Resolve(ctrl, rn, "index")>>)
    ELSE IF views # <<>> /\ \E i \in 1..Len(views[1]) : views[1][i] = [base |-> "index", ext |-> ".ejs"]
    THEN Register(reg, "get", <<"/">>, <<RenderHandler(rn, <<"index">>)>>)
    ELSE reg

\* one route per exported function other than index
RECURSIVE FunctionRoutes(_, _, _, _)
FunctionRoutes(reg, ctrl, rn, exports) ==
    IF exports = <<>> THEN reg
    ELSE LET x == Head(exports)
         IN FunctionRoutes(
                IF x.name # "index" /\ x.type = "function"
                THEN Register(reg, "get", <<"/", x.name>>, <<Resolve(ctrl, rn, x.name)>>)
                ELSE reg,
                ctrl, rn, Tail(exports))

\* path.basename(entry, '.ejs')
SubRoute(entry) ==
    IF entry.ext \in {".ejs", ""} THEN <<entry.base>> ELSE <<entry.base, entry.ext>>

\* view routes that skip nothing: one route per template whatever is registered
RECURSIVE C19_ViewRoutesNoFind(_, _, _)
C19_ViewRoutesNoFind(reg, rn, entries) ==
    IF entries = <<>> THEN reg
    ELSE LET sub == SubRoute(Head(entries))
         IN C19_ViewRoutesNoFind(
                IF sub # <<"index">>
                THEN Register(reg, "get", <<"/">> \o sub, <<RenderHandler(rn, sub)>>)
                ELSE reg,
                rn, Tail(entries))

\* one rendered route per entry of the view directory that is not index and
\* whose path is not registered yet
RECURSIVE ViewRoutes(_, _, _)
ViewRoutes(reg, rn, entries) ==
    IF entries = <<>> THEN reg
    ELSE LET sub == SubRoute(Head(entries))
         IN ViewRoutes(
                IF sub # <<"index">> /\ ~Registered(reg, <<"/">> \o sub)
                THEN Register(reg, "get", <<"/">> \o sub, <<RenderHandler(rn, sub)>>)
                ELSE reg,
                rn, Tail(entries))

\* the else branch without its view step
C20_ConventionRoutesNoViews(ctrl, file, views) ==
    FunctionRoutes(IndexRoute(NewRouter, ctrl, RouteName(file), views),
                   ctrl, RouteName(file), ctrl.exports)

\* the else branch of loadRoutes: routes by naming convention
ConventionRoutes(ctrl, file, views) ==
    LET rn == RouteName(file)
        byName == FunctionRoutes(IndexRoute(NewRouter, ctrl, rn, views), ctrl, rn, ctrl.exports)
    IN IF ~file.api /\ views # <<>> THEN ViewRoutes(byName, rn, views[1]) ELSE byName

\* the router loadRoutes builds for one controller file
ModuleRouter(ctrl, file, views) ==
    IF ctrl.routes # <<>>
    THEN ExplicitRoutes(NewRouter, ctrl, RouteName(file), ctrl.routes[1])
    ELSE ConventionRoutes(ctrl, file, views)

\* the directory views/<routeName>: <<>> when it does not exist, else <<its
\* entries>>, each [base, ext], in the order readdirSync lists them
ViewKey(file) == [api |-> file.api, name |-> file.name]

ViewsOf(file) ==
    IF loader.viewsDir = <<>> THEN <<>> ELSE loader.viewsDir[1][ViewKey(file)]

\* loadRoutes is entered: the loader with a base path first mounts its two
\* middlewares
LoadStart ==
    /\ loader.phase = "Unconfigured"
    /\ loader' =
         [loader EXCEPT
            !.mounted = IF loader.variant = "part_002"
                        THEN << [kind |-> "middleware", prefix |-> <<>>,
                                 module |-> <<"enforceBasePath">>, stack |-> <<>>],
                                [kind |-> "middleware", prefix |-> <<>>,
                                 module |-> <<"patchRedirect">>, stack |-> <<>>] >>
                        ELSE <<>>,
            !.phase = "Discovering"]
    /\ UNCHANGED <<qbVars, dbVars, tables, appVars>>

\* fs.readdirSync(routesDir).filter(f => f.endsWith('.js')): a missing routes
\* directory raises
Discover ==
    /\ loader.phase = "Discovering"
    /\ loader' =
         [loader EXCEPT
            !.phase = IF loader.routesDir = <<>> THEN "Failed" ELSE "Resolving",
            !.files = IF loader.routesDir = <<>> THEN <<>>
                      ELSE SelectSeq(loader.routesDir[1], LAMBDA f : f.file.ext = ".js")]
    /\ UNCHANGED <<qbVars, dbVars, tables, appVars>>

\* one turn of the forEach over the controller files: the router is built and
\* mounted under the prefix; what the registration raises leaves loadRoutes
ResolveModule ==
    /\ loader.phase = "Resolving"
    /\ loader.files # <<>>
    /\ LET f == Head(loader.files)
           reg == ModuleRouter(f.controller, f.file, ViewsOf(f.file))
       IN loader' =
            IF reg.ok
            THEN [loader EXCEPT
                    !.files = Tail(@),
                    !.mounted = Append(@, [kind |-> "router",
                                           prefix |-> BasePath(loader.variant) \o BaseRoute(f.file),
                                           module |-> RouteName(f.file),
                                           stack |-> reg.stack])]
            ELSE [loader EXCEPT !.phase = "Failed"]
    /\ UNCHANGED <<qbVars, dbVars, tables, appVars>>

\* the forEach is over: loadRoutes returns
LoadDone ==
    /\ loader.phase = "Resolving"
    /\ loader.files = <<>>
    /\ loader' = [loader EXCEPT !.phase = "Registered"]
    /\ UNCHANGED <<qbVars, dbVars, tables, appVars>>

\* a server that enumerates the routes directory again once it listens
C26_ListenRediscovers ==
    /\ loader.phase = "Registered"
    /\ ~http.listening
    /\ http' = [http EXCEPT !.listening = TRUE]
    /\ loader' = [loader EXCEPT !.phase = "Discovering"]
    /\ UNCHANGED <<qbVars, dbVars, tables, svc>>

\* the entry script after loadRoutes(app) has returned: app.listen(port); an
\* exception of loadRoutes ends the script before it
Listen ==
    /\ loader.phase = "Registered"
    /\ ~http.listening
    /\ http' = [http EXCEPT !.listening = TRUE]
    /\ UNCHANGED <<qbVars, dbVars, tables, loader, svc>>

\* controllers as the files of src/routes write them
Name(n) == [names |-> <<n>>]
Fn(n) == [name |-> n, type |-> "function"]
Arr(n) == [name |-> n, type |-> "array"]

CtlMap ==
    [exports |-> <<Fn("index"), Arr("validateX"), Fn("create")>>,
     routes |-> << << [def |-> <<"GET", "/">>,
                       handlers |-> [isArray |-> FALSE, items |-> <<Name("index")>>]],
                      [def |-> <<"POST", "/">>,
                       handlers |-> [isArray |-> TRUE,
                                     items |-> <<Name("validateX"), Name("create")>>]] >> >>]

CtlMapUnresolved ==
    [exports |-> <<Fn("index"), Fn("create")>>,
     routes |-> << << [def |-> <<"GET", "/">>,
                       handlers |-> [isArray |-> FALSE, items |-> <<Name("index")>>]],
                      [def |-> <<"POST", "/">>,
                       handlers |-> [isArray |-> TRUE,
                                     items |-> <<Name("missing"), Name("create")>>]] >> >>]

CtlMapNoMethod ==
    [exports |-> <<Fn("index")>>,
     routes |-> << << [def |-> <<"/about">>,
                       handlers |-> [isArray |-> FALSE, items |-> <<Name("index")>>]] >> >>]

CtlConv == [exports |-> <<Fn("edit"), Arr("validateY")>>, routes |-> <<>>]

CtlConvIndex == [exports |-> <<Fn("index"), Fn("list")>>, routes |-> <<>>]

Controllers == {CtlMap, CtlMapUnresolved, CtlMapNoMethod, CtlConv, CtlConvIndex}

Ejs(b) == [base |-> b, ext |-> ".ejs"]

ViewDirs ==
    { <<>>,
      << <<Ejs("edit"), Ejs("extra"), Ejs("index")>> >>,
      << <<[base |-> "extra", ext |-> ""], Ejs("extra"), [base |-> "notes", ext |-> ".txt"]>> >> }

\* the files a routes directory may hold, in the order readdirSync lists them
RouteFiles ==
    << [api |-> FALSE, name |-> "README", ext |-> ".md"],
       [api |-> TRUE, name |-> "users", ext |-> ".js"],
       [api |-> FALSE, name |-> "main", ext |-> ".js"],
       [api |-> FALSE, name |-> "story", ext |-> ".js"] >>

JsFiles == {i \in 1..Len(RouteFiles) : RouteFiles[i].ext = ".js"}

\* a routes directory: README.md and, for each controller file present, its module
RoutesDir(present) ==
    LET all == [i \in 1..Len(RouteFiles) |->
                  [file |-> RouteFiles[i],
                   controller |-> IF i \in DOMAIN present THEN present[i] ELSE CtlConv]]
    IN SelectSeq(all, LAMBDA f : f.file.ext # ".js"
                                  \/ \E i \in DOMAIN present : RouteFiles[i] = f.file)

InitRoutes ==
    /\ qb = QueryBuilder("stories")
    /\ ghost = FreshGhost
    /\ call = NoCall
    /\ db = 1
    /\ conns = <<[state |-> "connected", by |-> "init", emitted |-> "none"]>>
    /\ promise = [r \in Requests |-> NoPromise]
    /\ crashed = FALSE
    /\ tables = EmptyTables
    /\ svc = NoSvc
    /\ http = NoHttp
    /\ \E variant \in {"routeLoader", "part_002"},
          files \in SUBSET JsFiles,
          views \in [{ViewKey(RouteFiles[i]) : i \in JsFiles} -> ViewDirs] :
         \E present \in [files -> Controllers] :
            loader \in
              { [NoLoader EXCEPT !.variant = variant,
                                 !.routesDir = <<RoutesDir(present)>>,
                                 !.viewsDir = <<views>>],
                [NoLoader EXCEPT !.variant = variant,
                                 !.routesDir = <<RoutesDir(present)>>],
                [NoLoader EXCEPT !.variant = variant] }

NextRoutes ==
    \/ LoadStart
    \/ Discover
    \/ ResolveModule
    \/ LoadDone
    \/ Listen

\* loadRoutes at startup, on any of the modelled routes and views directories
SpecRoutes == InitRoutes /\ [][NextRoutes]_vars

\* -------------------------------------------------------- loader claims
\* the controller files of the routes directory, in the order they are processed
JsModules ==
    IF loader.routesDir = <<>> THEN <<>>
    ELSE SelectSeq(loader.routesDir[1], LAMBDA f : f.file.ext = ".js")

\* the routers mounted on the application, in mount order
Routers == SelectSeq(loader.mounted, LAMBDA m : m.kind = "router")

\* the forEach has finished the turn of controller file i without raising
Processed(i) ==
    /\ loader.phase \in {"Resolving", "Registered", "Failed"}
    /\ i <= Len(JsModules) - Len(loader.files)
    /\ i <= Len(Routers)

\* every key of the map is "<METHOD> <path>" and every name of a chain is an
\* export of the module
WellFormed(ctrl) ==
    \A i \in 1..Len(ctrl.routes[1]) :
        LET e == ctrl.routes[1][i]
        IN /\ Len(e.def) = 2
           /\ e.def[1] \in {"GET", "POST", "PUT", "DELETE"}
           /\ \A j \in 1..Len(Flat(e.handlers.items)) :
                Export(ctrl, Flat(e.handlers.items)[j]) # <<>>

\* C18: a controller module whose routes map has "<METHOD> <path>" keys and
\* names exports of the module is mounted, under its mount prefix, with one
\* route per map entry in declaration order, the method and path of the key,
\* and as handler chain the exports named by the entry, in the order written
C18_ExplicitRoutes ==
    \A i \in 1..Len(JsModules) :
        LET f == JsModules[i]
            ctrl == f.controller
        IN (loader.phase \in {"Resolving", "Registered", "Failed"}
            /\ i <= Len(JsModules) - Len(loader.files)
            /\ ctrl.routes # <<>> /\ WellFormed(ctrl))
            => /\ i <= Len(Routers)
               /\ Routers[i].module = RouteName(f.file)
               /\ Routers[i].prefix = BasePath(loader.variant) \o BaseRoute(f.file)
               /\ Len(Routers[i].stack) = Len(ctrl.routes[1])
               /\ \A k \in 1..Len(ctrl.routes[1]) :
                    LET e == ctrl.routes[1][k]
                        r == Routers[i].stack[k]
                        names == Flat(e.handlers.items)
                    IN /\ r.method = ToLowerCase(e.def[1])
                       /\ r.path = <<e.def[2]>>
                       /\ Len(r.chain) = Len(names)
                       /\ \A j \in 1..Len(names) :
                            /\ r.chain[j].name = <<names[j]>>
                            /\ r.chain[j].module = RouteName(f.file)
                            /\ r.chain[j].kind = Export(ctrl, names[j])[1].type

\* C18 witness: {"GET /": "index", "POST /": ["validateX", "create"]} mounted
\* as two routes, the second with the chain [validateX, create]
C18_Witness ==
    /\ loader.phase = "Registered"
    /\ \E i \in 1..Len(Routers) :
         /\ JsModules[i].controller = CtlMap
         /\ Len(Routers[i].stack) = 2
         /\ Routers[i].stack[2].method = "post"
         /\ Len(Routers[i].stack[2].chain) = 2
         /\ Routers[i].stack[2].chain[1].name = <<"validateX">>
         /\ Routers[i].stack[2].chain[2].name = <<"create">>

\* the view directory of a module holds an entry for sub-route sub
HasTemplate(f, sub) ==
    /\ ViewsOf(f.file) # <<>>
    /\ \E k \in 1..Len(ViewsOf(f.file)[1]) : SubRoute(ViewsOf(f.file)[1][k]) = sub

FunctionExport(ctrl, n) == Export(ctrl, n) # <<>> /\ Export(ctrl, n)[1].type = "function"

\* C19: the router of a module without a routes map holds no two routes with
\* the same path; where an exported function and a view template share a
\* name, the route of that path is bound to the function; for the function
\* edit and the templates edit, extra, index of a module that is not an API
\* module the routes are GET / rendering index, GET /edit bound to edit, and
\* GET /extra rendering extra
C19_NoDuplicatePath ==
    \A i \in 1..Len(JsModules) :
        LET f == JsModules[i]
            ctrl == f.controller
            rn == RouteName(f.file)
        IN (Processed(i) /\ ctrl.routes = <<>>)
            => LET st == Routers[i].stack
               IN /\ \A a, b \in 1..Len(st) : a # b => st[a].path # st[b].path
                  /\ \A a \in 1..Len(st) :
                       (Len(st[a].path) = 2 /\ FunctionExport(ctrl, st[a].path[2]))
                           => st[a].chain = <<[kind |-> "function", module |-> rn,
                                               name |-> <<st[a].path[2]>>]>>
                  /\ (~f.file.api /\ ctrl = CtlConv
                      /\ ViewsOf(f.file) = << <<Ejs("edit"), Ejs("extra"), Ejs("index")>> >>)
                       => st = << [method |-> "get", path |-> <<"/">>,
                                   chain |-> <<RenderHandler(rn, <<"index">>)>>],
                                  [method |-> "get", path |-> <<"/", "edit">>,
                                   chain |-> <<[kind |-> "function", module |-> rn,
                                                name |-> <<"edit">>]>>],
                                  [method |-> "get", path |-> <<"/", "extra">>,
                                   chain |-> <<RenderHandler(rn, <<"extra">>)>>] >>

\* C19 witness: the module story with the function edit and the templates
\* edit, extra, index is mounted
C19_Witness ==
    \E i \in 1..Len(JsModules) :
        /\ Processed(i)
        /\ JsModules[i].file.name = "story"
        /\ JsModules[i].controller = CtlConv
        /\ HasTemplate(JsModules[i], <<"edit">>)
        /\ HasTemplate(JsModules[i], <<"index">>)
        /\ Len(Routers[i].stack) = 3

\* entry k of the view directory of f is due a generated route: it is not
\* index and no exported function has its name
DueViewRoute(f, k) ==
    LET sub == SubRoute(ViewsOf(f.file)[1][k])
    IN sub # <<"index">> /\ ~(Len(sub) = 1 /\ FunctionExport(f.controller, sub[1]))

HasRenderRoute(st, rn, sub) ==
    \E a \in 1..Len(st) :
        st[a] = [method |-> "get", path |-> <<"/">> \o sub,
                 chain |-> <<RenderHandler(rn, sub)>>]

\* C20 as stated: in convention mode, whatever the mount prefix, every view
\* template that is not index and has no same-named exported function has
\* its generated route
C20_Original ==
    \A i \in 1..Len(JsModules) :
        LET f == JsModules[i]
        IN (Processed(i) /\ f.controller.routes = <<>> /\ ViewsOf(f.file) # <<>>)
            => \A k \in 1..Len(ViewsOf(f.file)[1]) :
                 DueViewRoute(f, k)
                    => HasRenderRoute(Routers[i].stack, RouteName(f.file),
                                      SubRoute(ViewsOf(f.file)[1][k]))

\* C20: the router mounted for a module in convention mode that is not an API
\* module (prefix root or /<name>) has, for every entry of its view directory
\* that is not index and has no same-named exported function, the route GET
\* /<templateName> bound to a generated render handler; the router of an API
\* module (prefix /api/<name>) has no route generated from a view template
\* other than index
C20_ViewRoutes ==
    \A i \in 1..Len(JsModules) :
        LET f == JsModules[i]
            rn == RouteName(f.file)
        IN (Processed(i) /\ f.controller.routes = <<>>)
            => /\ Routers[i].prefix = BasePath(loader.variant) \o BaseRoute(f.file)
               /\ (~f.file.api /\ ViewsOf(f.file) # <<>>)
                    => \A k \in 1..Len(ViewsOf(f.file)[1]) :
                         DueViewRoute(f, k)
                            => HasRenderRoute(Routers[i].stack, rn,
                                              SubRoute(ViewsOf(f.file)[1][k]))
               /\ f.file.api
                    => \A a \in 1..Len(Routers[i].stack) :
                         Routers[i].stack[a].chain[1].kind = "render"
                            => Routers[i].stack[a].path = <<"/">>

\* C20 witness: a module mounted under /<name> with the generated routes of
\* its templates extra and notes.txt, beside an API module with a view
\* directory
C20_Witness ==
    /\ loader.phase = "Registered"
    /\ \E i, j \in 1..Len(JsModules) :
         /\ ~JsModules[i].file.api
         /\ JsModules[i].file.name # "main"
         /\ JsModules[i].controller.routes = <<>>
         /\ HasRenderRoute(Routers[i].stack, RouteName(JsModules[i].file), <<"extra">>)
         /\ HasRenderRoute(Routers[i].stack, RouteName(JsModules[i].file), <<"notes", ".txt">>)
         /\ JsModules[j].file.api
         /\ JsModules[j].controller.routes = <<>>
         /\ HasTemplate(JsModules[j], <<"extra">>)

\* C21: the router of a controller module is mounted under a prefix worked
\* out from the file base name alone, whatever the module exports and
\* whatever its view directory holds: the root path for main, /api/<name>
\* for api-<name>, /<name> for every other name (the loader with a base
\* path puts BASE_PATH in front of it); the routes of the module are the
\* stack of the router mounted there
C21_MountPrefix ==
    \A i \in 1..Len(JsModules) :
        Processed(i)
            => LET file == JsModules[i].file
               IN /\ Routers[i].module = RouteName(file)
                  /\ Routers[i].prefix =
                        BasePath(loader.variant)
                            \o (CASE file.api -> <<"/api/", file.name>>
                                  [] ~file.api /\ file.name = "main" -> <<>>
                                  [] OTHER -> <<"/", file.name>>)
                  /\ Routers[i].stack =
                        ModuleRouter(JsModules[i].controller, file, ViewsOf(file)).stack

\* C21 witness: api-users.js, main.js and story.js mounted by the plain loader
\* under /api/users, the root path and /story, each with routes
C21_Witness ==
    /\ loader.phase = "Registered"
    /\ loader.variant = "routeLoader"
    /\ Len(Routers) = 3
    /\ Routers[1].prefix = <<"/api/", "users">>
    /\ Routers[2].prefix = <<>>
    /\ Routers[3].prefix = <<"/", "story">>
    /\ \A i \in 1..3 : Routers[i].stack # <<>>

\* the forEach has reached controller file i: it has mounted its router or
\* has raised while building it
Attempted(i) ==
    /\ loader.phase \in {"Resolving", "Registered", "Failed"}
    /\ loader.routesDir # <<>>
    /\ \/ i <= Len(JsModules) - Len(loader.files)
       \/ loader.phase = "Failed" /\ i = Len(JsModules) - Len(loader.files) + 1

\* C22: a key of the routes map that holds only a path gives the route GET
\* <path> on the router of its module
C22_DefaultGet ==
    \A i \in 1..Len(JsModules) :
        LET ctrl == JsModules[i].controller
        IN (Attempted(i) /\ ctrl.routes # <<>>)
            => \A k \in 1..Len(ctrl.routes[1]) :
                 Len(ctrl.routes[1][k].def) = 1
                    => /\ i <= Len(Routers)
                       /\ \E a \in 1..Len(Routers[i].stack) :
                            /\ Routers[i].stack[a].method = "get"
                            /\ Routers[i].stack[a].path = <<ctrl.routes[1][k].def[1]>>

\* the names of a chain that are exports of the module
ResolvedNames(ctrl, handlers) ==
    SelectSeq(Flat(handlers.items), LAMBDA h : Export(ctrl, h) # <<>>)

\* C23: a name in a chain of the routes map that is no export of the module
\* is dropped: the route is registered with the exports the other names of
\* the entry resolve to, and no registered chain holds a string
C23_UnresolvedDropped ==
    \A i \in 1..Len(JsModules) :
        LET ctrl == JsModules[i].controller
        IN (Attempted(i) /\ ctrl.routes # <<>>
            /\ \A k \in 1..Len(ctrl.routes[1]) : Len(ctrl.routes[1][k].def) = 2)
            => /\ i <= Len(Routers)
               /\ Len(Routers[i].stack) = Len(ctrl.routes[1])
               /\ \A k \in 1..Len(ctrl.routes[1]) :
                    LET names == ResolvedNames(ctrl, ctrl.routes[1][k].handlers)
                        chain == Routers[i].stack[k].chain
                    IN /\ Len(chain) = Len(names)
                       /\ \A j \in 1..Len(chain) :
                            chain[j].kind # "string" /\ chain[j].name = <<names[j]>>

\* C24: when the routes directory or the views directory is missing,
\* loadRoutes does not return normally, the failed application holds no
\* router, and the server never listens
C24_MissingDirFatal ==
    (loader.phase \notin {"Unconfigured", "Discovering"}
     /\ (loader.routesDir = <<>> \/ loader.viewsDir = <<>>))
        => /\ loader.phase # "Registered"
           /\ loader.phase = "Failed" => Routers = <<>>
           /\ ~http.listening

\* C25: when building the router of one controller module raises, loadRoutes
\* ends with the error, the server never listens, and the application holds
\* no router of the modules processed before
C25_NoPartialTable ==
    /\ \A i \in 1..Len(JsModules) :
         (Attempted(i)
          /\ ~ModuleRouter(JsModules[i].controller, JsModules[i].file,
                           ViewsOf(JsModules[i].file)).ok)
            => loader.phase = "Failed" /\ Len(Routers) < i
    /\ loader.phase = "Failed" => (Routers = <<>> /\ ~http.listening)

\* ------------------------------------------------ requests at the server
\* A URL is a token sequence whose first token tells how it starts: "/" a
\* site-absolute path, the base path itself, "//" a protocol-relative URL,
\* anything else a relative or absolute URL; a query string is one last token.

BASE_PATH == "/usr/326"

\* url.startsWith(BASE_PATH), url.startsWith('/'), url.startsWith('//')
StartsWithBase(url) == url # <<>> /\ Head(url) = BASE_PATH
StartsWithSlash(url) == url # <<>> /\ Head(url) \in {"/", "//", BASE_PATH}
StartsWithSlashSlash(url) == url # <<>> /\ Head(url) = "//"

\* the wrapper without its test for a URL that already has the base path
C30_patchedRedirectAlways(url) ==
    IF StartsWithSlash(url) /\ ~StartsWithSlashSlash(url)
    THEN <<BASE_PATH>> \o url ELSE url

\* the URL patchedRedirect hands to the redirect it wraps
patchedRedirect(url) ==
    IF StartsWithSlash(url) /\ ~StartsWithBase(url) /\ ~StartsWithSlashSlash(url)
    THEN <<BASE_PATH>> \o url ELSE url

\* patchRedirect(res): one wrapper around res.redirect, once per response
patchRedirect(res) ==
    IF res.patched THEN res ELSE [res EXCEPT !.layers = @ + 1, !.patched = TRUE]

\* res.redirect(url) called by `by`: the URL goes through the wrappers around
\* the original redirect, which sends it as the Location
RECURSIVE Wrapped(_, _)
Wrapped(n, url) == IF n = 0 THEN url ELSE Wrapped(n - 1, patchedRedirect(url))

redirect(res, url, by) ==
    [res EXCEPT !.status = "redirect", !.location = Wrapped(res.layers, url),
                !.by = by, !.asked = <<url>>]

\* a path without its trailing slash
Norm(path) ==
    IF Len(path) > 1 /\ path[Len(path)] = "/" THEN SubSeq(path, 1, Len(path) - 1) ELSE path

\* the routes of a mounted router that answer the request, in stack order
Matching(layer, req) ==
    SelectSeq(layer.stack,
              LAMBDA r : r.method = req.method
                         /\ Norm(layer.prefix \o r.path) = Norm(req.path))

\* what the clients ask for
Queries == { <<>>, <<"?page=2">> }

RequestPaths ==
    LET site == { <<"/">>, <<"/", "story">>, <<"/", "story", "/", "edit">>,
                  <<"/", "api/", "users">>, <<"/", "nowhere">> }
    IN site \cup { <<BASE_PATH>> \o q : q \in site } \cup { <<BASE_PATH>>, <<BASE_PATH, "7">> }

\* the URLs the handlers of src/routes hand to res.redirect
HandlerRedirects ==
    { <<"/", "auth/login">>, <<"/", "story">>, <<"login">>, <<"back">>,
      <<BASE_PATH, "/", "story">>, <<"//", "cdn.example">> }

Layer == loader.mounted[http.pos]

\* a client sends a request to the listening server
ClientRequest ==
    /\ http.listening
    /\ http.pc # "dispatch"
    /\ \E method \in {"get", "post"}, path \in RequestPaths, qs \in Queries :
         http' = [http EXCEPT !.pc = "dispatch", !.pos = 1, !.hops = 0, !.res = FreshRes,
                              !.req = [method |-> method, path |-> path,
                                       query |-> qs, via |-> "client"]]
    /\ UNCHANGED <<qbVars, dbVars, tables, loader, svc>>

\* the middleware as the one that answered a request
EnforceHandler ==
    [kind |-> "middleware", module |-> <<"enforceBasePath">>, name |-> <<"enforceBasePath">>]

\* enforceBasePath(req, res, next)
enforceBasePath ==
    /\ http.pc = "dispatch"
    /\ http.pos <= Len(loader.mounted)
    /\ Layer.kind = "middleware" /\ Layer.module = <<"enforceBasePath">>
    /\ http' =
         IF ~StartsWithBase(http.req.path)
         THEN [http EXCEPT !.pc = "done",
                  !.res = redirect(@, <<BASE_PATH>> \o http.req.path \o http.req.query,
                                   <<EnforceHandler>>)]
         ELSE [http EXCEPT !.pos = @ + 1]
    /\ UNCHANGED <<qbVars, dbVars, tables, loader, svc>>

\* (req, res, next) => { patchRedirect(res); next(); }
PatchMiddleware ==
    /\ http.pc = "dispatch"
    /\ http.pos <= Len(loader.mounted)
    /\ Layer.kind = "middleware" /\ Layer.module = <<"patchRedirect">>
    /\ http' = [http EXCEPT !.res = patchRedirect(@), !.pos = @ + 1]
    /\ UNCHANGED <<qbVars, dbVars, tables, loader, svc>>

\* a mounted router: the first route that answers runs its chain, whose last
\* handler renders, responds or redirects; without one, the next layer
RouterHandle ==
    /\ http.pc = "dispatch"
    /\ http.pos <= Len(loader.mounted)
    /\ Layer.kind = "router"
    /\ LET found == Matching(Layer, http.req)
       IN IF found = <<>>
          THEN http' = [http EXCEPT !.pos = @ + 1]
          ELSE LET chain == found[1].chain
                   h == chain[Len(chain)]
               IN \/ http' = [http EXCEPT !.pc = "done", !.res.status = "ok",
                                         !.res.by = <<h>>]
                  \/ /\ h.kind # "render"
                     /\ \E url \in HandlerRedirects :
                          http' = [http EXCEPT !.pc = "done",
                                               !.res = redirect(@, url, <<h>>)]
    /\ UNCHANGED <<qbVars, dbVars, tables, loader, svc>>

\* no layer answered: express sends 404
NoRoute ==
    /\ http.pc = "dispatch"
    /\ http.pos > Len(loader.mounted)
    /\ http' = [http EXCEPT !.pc = "done", !.res.status = "notfound"]
    /\ UNCHANGED <<qbVars, dbVars, tables, loader, svc>>

\* the client follows a redirect to a path of the site
ClientFollows ==
    /\ http.pc = "done"
    /\ http.res.status = "redirect"
    /\ http.hops < MaxHops
    /\ Head(http.res.location) \in {"/", BASE_PATH}
    /\ LET loc == http.res.location
           hasQuery == <<loc[Len(loc)]>> \in Queries
       IN http' = [http EXCEPT
                     !.pc = "dispatch", !.pos = 1, !.hops = @ + 1, !.res = FreshRes,
                     !.req = [method |-> "get",
                              path |-> IF hasQuery THEN SubSeq(loc, 1, Len(loc) - 1) ELSE loc,
                              query |-> IF hasQuery THEN <<loc[Len(loc)]>> ELSE <<>>,
                              via |-> IF http.res.by = <<EnforceHandler>>
                                      THEN "enforceBasePath" ELSE "handler"]]
    /\ UNCHANGED <<qbVars, dbVars, tables, loader, svc>>

\* the application of the entry script: api-users.js and story.js by naming
\* convention, main.js with a routes map, views for story
HttpViews ==
    [k \in {ViewKey(RouteFiles[i]) : i \in JsFiles} |->
        IF k.name = "story" THEN << <<Ejs("edit"), Ejs("extra"), Ejs("index")>> >> ELSE <<>>]

InitHttp ==
    /\ qb = QueryBuilder("stories")
    /\ ghost = FreshGhost
    /\ call = NoCall
    /\ db = 1
    /\ conns = <<[state |-> "connected", by |-> "init", emitted |-> "none"]>>
    /\ promise = [r \in Requests |-> NoPromise]
    /\ crashed = FALSE
    /\ tables = EmptyTables
    /\ svc = NoSvc
    /\ http = NoHttp
    /\ \E variant \in {"routeLoader", "part_002"} :
         loader = [NoLoader EXCEPT
                     !.variant = variant,
                     !.routesDir = <<RoutesDir((2 :> CtlConvIndex) @@ (3 :> CtlMap)
                                               @@ (4 :> CtlConv))>>,
                     !.viewsDir = <<HttpViews>>]

NextHttp ==
    \/ LoadStart
    \/ Discover
    \/ ResolveModule
    \/ LoadDone
    \/ Listen
    \/ ClientRequest
    \/ enforceBasePath
    \/ PatchMiddleware
    \/ RouterHandle
    \/ NoRoute
    \/ ClientFollows

\* startup and the requests served afterwards
SpecHttp == InitHttp /\ [][NextHttp]_vars

\* the positions of loadRoutes in the order it passes them; a failure ends it
PhaseRank(p) ==
    CASE p = "Unconfigured" -> 0
      [] p = "Discovering" -> 1
      [] p = "Resolving" -> 2
      [] p = "Registered" -> 3
      [] OTHER -> 4

\* C26: the loader only moves forward through Unconfigured, Discovering,
\* Resolving, Registered; once loadRoutes has returned (or failed) nothing of
\* it changes again, whatever the server does afterwards, and a layer mounted
\* on the application keeps its prefix and its routes, each with its method,
\* path and handler chain
C26_ForwardOnly ==
    [][ /\ PhaseRank(loader'.phase) >= PhaseRank(loader.phase)
        /\ loader.phase \in {"Registered", "Failed"} => loader' = loader
        /\ \A i \in 1..Len(loader.mounted) :
             i <= Len(loader'.mounted) /\ loader'.mounted[i] = loader.mounted[i] ]_vars

\* C26 witness: the server has answered a followed redirect with the three
\* routers registered at startup
C26_Witness ==
    /\ loader.phase = "Registered"
    /\ Len(Routers) = 3
    /\ http.pc = "done"
    /\ http.hops >= 1
    /\ http.res.status = "ok"

\* the base-path layer is installed and has answered or passed the request
LayerInstalled == loader.variant = "part_002" /\ loader.phase = "Registered"

\* a handler of a route has called res.redirect on a patched response
HandlerRedirected ==
    /\ LayerInstalled
    /\ http.pc = "done"
    /\ http.res.status = "redirect"
    /\ http.res.by # <<EnforceHandler>>
    /\ http.res.patched

\* a request off the base path is redirected to base path + path + query
\* before any route handler, and the request that follows that redirect is
\* not redirected by the layer again
EnforcedOnce ==
    /\ (LayerInstalled /\ http.pc = "done" /\ ~StartsWithBase(http.req.path))
         => /\ http.res.status = "redirect"
            /\ http.res.by = <<EnforceHandler>>
            /\ http.pos = 1
            /\ http.res.location = <<BASE_PATH>> \o http.req.path \o http.req.query
    /\ (LayerInstalled /\ http.req.via = "enforceBasePath")
         => /\ StartsWithBase(http.req.path)
            /\ http.res.by # <<EnforceHandler>>

Num(k) == [t |-> "num", v |-> k]

\* conditionFn.toString() of a string argument, as the regular expression of
\* where() sees it: a column name holds no `m => m.<field> ==`, so it does
\* not match
StringCondition(str) ==
    [matches |-> FALSE, field |-> "", rhs |-> [kind |-> "expr", text |-> ""]]

\* db.table('stories').select([...]).join('users', ...).where('stories.user_id',
\* userId): the second argument of where() is not a parameter of it
StoriesOfUser(userId) ==
    where(join(select(QueryBuilder("stories"),
                      [isArray |-> TRUE,
                       items |-> <<"stories.id", "stories.title", "stories.vanity",
                                   "users.username">>]),
               "users", "stories.user_id=users.id"),
          StringCondition("stories.user_id"))

UserIds == {"1", "2"}

\* loadStories(userId) of routes/collections.js, up to the await of get()
loadStories ==
    /\ Idle
    /\ svc.op = "none"
    /\ \E u \in UserIds :
         /\ qb' = StoriesOfUser(u)
         /\ svc' = [NoSvc EXCEPT !.op = "loadStories", !.pc = "awaiting", !.userId = u]
    /\ IssueSelect("get", qb')
    /\ UNCHANGED <<ghost, tables, loader, http>>

\* collectionsService.getStoriesForUser(userId), up to the await of get()
getStoriesForUser ==
    /\ Idle
    /\ svc.op = "none"
    /\ \E u \in UserIds :
         /\ qb' = StoriesOfUser(u)
         /\ svc' = [NoSvc EXCEPT !.op = "getStoriesForUser", !.pc = "awaiting", !.userId = u]
    /\ IssueSelect("get", qb')
    /\ UNCHANGED <<ghost, tables, loader, http>>

\* the function returns what get() settled with
StoriesReturned ==
    /\ svc.op \in {"loadStories", "getStoriesForUser"}
    /\ svc.pc = "awaiting"
    /\ call.st \in {"resolved", "rejected"}
    /\ svc' = [svc EXCEPT !.pc = "returned"]
    /\ UNCHANGED <<qbVars, dbVars, tables, loader, http>>

\* the server's constraints on a row of collections or story_collections
HasRow(tbls, t, col, val) ==
    \E i \in 1..Len(tbls[t]) : Lookup(tbls[t][i], col) = <<val>>

ForeignKeysHold(tbls, t, row) ==
    IF t = "collections"
    THEN HasRow(tbls, "users", "id", Lookup(row, "user_id")[1])
    ELSE /\ HasRow(tbls, "stories", "id", Lookup(row, "story_id")[1])
         /\ HasRow(tbls, "collections", "id", Lookup(row, "collection_id")[1])

PrimaryKeyFree(tbls, t, row) ==
    t = "story_collections"
        => ~\E i \in 1..Len(tbls[t]) :
              /\ Lookup(tbls[t][i], "story_id") = Lookup(row, "story_id")
              /\ Lookup(tbls[t][i], "collection_id") = Lookup(row, "collection_id")

\* db.table(t).insertAsync(data): one INSERT in one round trip of its own, not
\* part of any transaction; it resolves with the driver's result (insertId)
\* or rejects with the server's error, and a stored row stays stored
insertAsync(tbls, t, data) ==
    IF ForeignKeysHold(tbls, t, data) /\ PrimaryKeyFree(tbls, t, data)
    THEN LET k == Num(IF AutoIncrementId(t) THEN ToString(Len(tbls[t]) + 1) ELSE "0")
         IN [ok |-> TRUE, insertId |-> k,
             tables |-> [tbls EXCEPT ![t] =
                            Append(@, (IF AutoIncrementId(t) THEN << <<"id", k>> >> ELSE <<>>)
                                      \o data)]]
    ELSE [ok |-> FALSE, insertId |-> Num("0"), tables |-> tbls]

Min(S) == CHOOSE x \in S : \A y \in S : x <= y

\* the story ids a form or a request body carries: stories stored, a story
\* that does not exist, the same story twice
StoryIdLists ==
    UNION { [1..n -> {"1", "2", "9"}] : n \in 0..MaxLinks }

LinkRow(collectionId, storyId) ==
    << <<"collection_id", collectionId>>, <<"story_id", Num(storyId)>> >>

\* exports.createCollection, of routes/collections.js ("routes") or of the
\* API controller over collectionsService ("api"), up to the await of the
\* INSERT of the collection
createCollection ==
    /\ ~crashed
    /\ svc.op = "none"
    /\ Len(tables["collections"]) < MaxRows
    /\ \E op \in {"routes.createCollection", "api.createCollection"},
          u \in UserIds \cup {"3"}, ids \in StoryIdLists :
         svc' = [NoSvc EXCEPT !.op = op, !.pc = "parent", !.userId = u, !.storyIds = ids]
    /\ UNCHANGED <<qbVars, dbVars, tables, loader, http>>

\* the INSERT of the collection is answered and the handler goes on: to the
\* link inserts (all of them issued at once under Promise.all, or the first
\* of the loop of addStoriesToCollection), to its end, or to its catch
InsertCollection ==
    /\ svc.pc = "parent"
    /\ LET r == insertAsync(tables, "collections",
                            << <<"user_id", Num(svc.userId)>>,
                               <<"title", [t |-> "str", v |-> "title"]>> >>)
           n == Len(svc.storyIds)
       IN /\ tables' = r.tables
          /\ svc' = IF ~r.ok THEN [svc EXCEPT !.pc = "catch"]
                    ELSE [svc EXCEPT
                            !.collectionId = <<r.insertId>>,
                            !.pc = IF n = 0 THEN "finish" ELSE "links",
                            !.next = 1,
                            !.pending = IF svc.op = "routes.createCollection"
                                        THEN 1..n ELSE {}]
    /\ UNCHANGED <<qbVars, dbVars, loader, http>>

\* routes/collections.js: the server answers the next of the link inserts
\* issued under Promise.all; the first rejection takes the handler to its
\* catch while the statements behind it are still executed
LinkInsertAll ==
    /\ svc.op = "routes.createCollection"
    /\ svc.pending # {}
    /\ LET i == Min(svc.pending)
           r == insertAsync(tables, "story_collections",
                            LinkRow(svc.collectionId[1], svc.storyIds[i]))
           left == svc.pending \ {i}
       IN /\ tables' = r.tables
          /\ svc' = [svc EXCEPT
                       !.pending = left,
                       !.done = IF r.ok THEN @ \cup {i} ELSE @,
                       !.pc = IF svc.pc # "links" THEN @
                              ELSE IF ~r.ok THEN "catch"
                              ELSE IF left = {} THEN "finish" ELSE @]
    /\ UNCHANGED <<qbVars, dbVars, loader, http>>

\* collectionsService.addStoriesToCollection: one turn of its loop; a
\* rejected insert ends the loop and takes the controller to its catch
addStoriesToCollection ==
    /\ svc.op = "api.createCollection"
    /\ svc.pc = "links"
    /\ LET i == svc.next
           r == insertAsync(tables, "story_collections",
                            LinkRow(svc.collectionId[1], svc.storyIds[i]))
       IN /\ tables' = r.tables
          /\ svc' = [svc EXCEPT
                       !.next = i + 1,
                       !.done = IF r.ok THEN @ \cup {i} ELSE @,
                       !.pc = IF ~r.ok THEN "catch"
                              ELSE IF i = Len(svc.storyIds) THEN "finish" ELSE @]
    /\ UNCHANGED <<qbVars, dbVars, loader, http>>

\* a catch block that deletes the collection it created, and with it its links
C27_ReportCleansUp ==
    /\ svc.pc \in {"finish", "catch"}
    /\ svc' = [svc EXCEPT !.pc = "reported",
                          !.reported = IF svc.pc = "finish" THEN "ok" ELSE "error"]
    /\ tables' =
         IF svc.pc = "catch" /\ svc.collectionId # <<>>
         THEN [tables EXCEPT
                 !["collections"] =
                     SelectSeq(@, LAMBDA row : Lookup(row, "id") # svc.collectionId),
                 !["story_collections"] =
                     SelectSeq(@, LAMBDA row : Lookup(row, "collection_id") # svc.collectionId)]
         ELSE tables
    /\ UNCHANGED <<qbVars, dbVars, loader, http>>

\* the end of the handler: the redirect or the 201 after the last insert, or
\* the catch block, which logs and answers with the error and touches no row
Report ==
    /\ svc.pc \in {"finish", "catch"}
    /\ svc' = [svc EXCEPT !.pc = "reported",
                          !.reported = IF svc.pc = "finish" THEN "ok" ELSE "error"]
    /\ UNCHANGED <<qbVars, dbVars, tables, loader, http>>

\* the next call of a service: the previous one has returned and no
\* statement of it is left at the server
NextOperation ==
    /\ ~crashed
    /\ svc.pc \in {"reported", "returned"}
    /\ svc.pending = {}
    /\ svc' = NoSvc
    /\ qb' = QueryBuilder("stories")
    /\ call' = NoCall
    /\ promise' = [promise EXCEPT ![1] = NoPromise]
    /\ UNCHANGED <<ghost, db, conns, crashed, tables, loader, http>>

\* the rows the database holds when the services run: two users, a story each
StoredRows ==
    [EmptyTables EXCEPT
        !["users"] = << << <<"id", Num("1")>>, <<"username", [t |-> "str", v |-> "ann"]>> >>,
                        << <<"id", Num("2")>>, <<"username", [t |-> "str", v |-> "bob"]>> >> >>,
        !["stories"] = << << <<"id", Num("1")>>, <<"user_id", Num("1")>> >>,
                          << <<"id", Num("2")>>, <<"user_id", Num("2")>> >> >>]

InitSvc ==
    /\ qb = QueryBuilder("stories")
    /\ ghost = FreshGhost
    /\ call = NoCall
    /\ db = 1
    /\ conns = <<[state |-> "connected", by |-> "init", emitted |-> "none"]>>
    /\ promise = [r \in Requests |-> NoPromise]
    /\ crashed = FALSE
    /\ tables = StoredRows
    /\ loader = NoLoader
    /\ svc = NoSvc
    /\ http = NoHttp

NextSvc ==
    \/ loadStories
    \/ getStoriesForUser
    \/ ServerSelect
    \/ Return
    \/ StoriesReturned
    \/ createCollection
    \/ InsertCollection
    \/ LinkInsertAll
    \/ addStoriesToCollection
    \/ Report
    \/ NextOperation

\* the collections handlers and services against the stored rows
SpecSvc == InitSvc /\ [][NextSvc]_vars

\* ------------------------------------------------------------------- C27
\* C27: there is no implicit rollback across statements: once createCollection
\* has reported its error, the collection row it inserted and every link row
\* whose insert succeeded are stored
C27_NoImplicitRollback ==
    (svc.pc = "reported" /\ svc.reported = "error" /\ svc.collectionId # <<>>)
        => /\ HasRow(tables, "collections", "id", svc.collectionId[1])
           /\ \A i \in svc.done :
                 \E k \in 1..Len(tables["story_collections"]) :
                    tables["story_collections"][k]
                        = LinkRow(svc.collectionId[1], svc.storyIds[i])

\* the error is reported after the collection and one link were stored and
\* another link insert failed
C27_Witness ==
    /\ svc.pc = "reported"
    /\ svc.reported = "error"
    /\ svc.collectionId # <<>>
    /\ svc.done # {}
    /\ \E i \in 1..Len(svc.storyIds) : i \notin svc.done /\ i \notin svc.pending
    /\ HasRow(tables, "collections", "id", svc.collectionId[1])
    /\ tables["story_collections"] # <<>>

\* ------------------------------------------------------------------- C29
\* C29: loadStories(userId) and getStoriesForUser(userId) fetch the stories of
\* the given user only: their statement filters on stories.user_id with userId
\* as its parameter, and no story of another user is in the rows they return
C29_OwnStoriesOnly ==
    (svc.op \in {"loadStories", "getStoriesForUser"} /\ call.st # "none")
        => /\ WhereClause(call.sql) = <<"stories.user_id", "=", "?">>
           /\ call.params = <<Num(svc.userId)>>
           /\ promise[1].st = "resolved"
                 => \A i \in 1..Len(promise[1].val.rows) :
                       Lookup(promise[1].val.rows[i], "user_id") = <<Num(svc.userId)>>

\* ------------------------------------------------------------------- C28
\* a connection whose socket closed without an event (state 'disconnected')
\* raises its 'error' event in a later turn; its handler, attached by the
\* ensureConnection that created it, is still in place
DriverLateError(c, err) ==
    /\ ~crashed
    /\ conns[c].state = "disconnected"
    /\ conns[c].emitted = "none"
    /\ errorHandler([conns EXCEPT ![c].emitted = "fatal"], c, err)
    /\ UNCHANGED <<promise, qbVars>>
    /\ UNCHANGED tables
    /\ UNCHANGED loader
    /\ UNCHANGED appVars

DriverRaisesLate == \E c \in 1..Len(conns), err \in LossErrors : DriverLateError(c, err)

NextStale ==
    \/ \E r \in Requests : ClientGet(r)
    \/ \E r \in Requests : ClientDone(r)
    \/ \E r \in Requests : DriverSettles(r)
    \/ DriverHandshake
    \/ DriverEnds
    \/ DriverRaises
    \/ destroy
    \/ DriverRaisesLate

\* the shared connection with events that arrive after the socket has closed
SpecStale == InitDB /\ [][NextStale]_vars

\* C28: an 'error' event of a connection that ensureConnection has already
\* replaced never replaces the current connection: in no step does a
\* connection other than the current one emit while the current connection
\* is established and the current connection change
C28_StaleEventHarmless ==
    [][(\E c \in 1..Len(conns) :
           /\ c # db
           /\ conns[c].emitted = "none"
           /\ conns'[c].emitted # "none"
           /\ conns[db].state = "connected")
        => db' = db]_vars

====
